---- MODULE Spec2Model ----
(***************************************************************************)
(* Model of the logger provisioning registry of                            *)
(* src/common/logging_utils/logging_config.py: get_logger,                 *)
(* set_console_level, create_rotating_file_handler, and the writes that a  *)
(* provisioned logger performs through its console handler and its         *)
(* RotatingFileHandler; of the folder relocation of                        *)
(* src/common/utils/file_move_utils.py: move_uuid_folder and               *)
(* move_uuid_folder_with_hierarchy over a filesystem tree; and of          *)
(* sanitize_filename of src/common/utils/file_sys_utils.py.                *)
(***************************************************************************)
EXTENDS Integers, Sequences, FiniteSets, TLC

\* ------------------------------------------------------------------------
\* Bounds of the model
\* ------------------------------------------------------------------------
\* Number of records written through loggers in one run of Spec.
MaxMsgs == 1

\* Number of records written through loggers in one run of SpecRotation.
MaxRotationMsgs == 4

\* Stand-in for defaults.rotation.max_bytes (10 MB in the source), in units of
\* one formatted character, small enough for rotations to happen.
RotationMaxBytes == 3

\* Stand-in for defaults.rotation.backup_count (7 in the source).
RotationBackupCount == 2

\* ------------------------------------------------------------------------
\* Inputs
\* ------------------------------------------------------------------------
\* Python's None, for an omitted optional argument.
None == "None"

\* "diary" has an entry in LOGGING_CONFIG["loggers"]; "file_move_utils" (the
\* name file_move_utils.py asks for) has none.
Names == {"diary", "file_move_utils"}

\* The (log_dir, console_level, file_level) arguments of a get_logger call:
\* none given (as every caller in the repository does), all given, one given,
\* and level names that logging does not define.
OverrideArgs ==
    { <<None, None, None>>,
      <<"alt_logs", "info", "ERROR">>,
      <<None, "info", None>>,
      <<None, "BOGUS", None>>,
      <<None, None, "BOGUS">> }
SetLevelArgs == {"WARNING", "BOGUS"}
Severities == {"DEBUG", "WARNING"}

\* Lengths of a formatted record, newline included.
MsgLens == {1, 2}

\* ------------------------------------------------------------------------
\* Levels: getattr(logging, level.upper())
\* ------------------------------------------------------------------------
LevelValue ==
    [DEBUG |-> 10, INFO |-> 20, WARNING |-> 30, ERROR |-> 40, CRITICAL |-> 50]

Upper(s) ==
    CASE s = "debug" -> "DEBUG"
      [] s = "info" -> "INFO"
      [] s = "warning" -> "WARNING"
      [] s = "error" -> "ERROR"
      [] s = "critical" -> "CRITICAL"
      [] OTHER -> s

\* getattr(logging, name) succeeds
HasLevel(level) == Upper(level) \in DOMAIN LevelValue

GetLevel(level) == LevelValue[Upper(level)]

\* ------------------------------------------------------------------------
\* LOGGING_CONFIG
\* ------------------------------------------------------------------------
Defaults(co, fo) ==
    [console_level |-> "DEBUG",
     file_level |-> "DEBUG",
     console_output |-> co,
     file_output |-> fo,
     rotation |-> [mode |-> "size",
                   max_bytes |-> RotationMaxBytes,
                   backup_count |-> RotationBackupCount]]

\* The table as the source ships it. A file name is written as the pair
\* <<stem, suffix>>, so that f"{logger_name}.log" is <<logger_name, ".log">>.
ShippedConfig ==
    [defaults |-> Defaults(TRUE, TRUE),
     loggers |-> [diary |-> [log_filename |-> <<"diary", ".log">>,
                             console_output |-> TRUE,
                             file_output |-> TRUE]],
     strict_config |-> FALSE]

\* The tables an embedding application can supply: the shipped one, the
\* shipped one in strict mode, and tables whose entries set the optional
\* keys and switch outputs off.
Configs ==
    { ShippedConfig,
      [ShippedConfig EXCEPT !.strict_config = TRUE],
      [defaults |-> Defaults(FALSE, TRUE),
       loggers |-> [diary |-> [log_filename |-> <<"journal", ".log">>,
                               console_output |-> TRUE,
                               file_output |-> TRUE,
                               console_level |-> "WARNING",
                               file_level |-> "INFO",
                               log_dir |-> "diary_logs"]],
       strict_config |-> FALSE],
      [defaults |-> Defaults(TRUE, FALSE),
       loggers |-> [diary |-> [console_output |-> FALSE]],
       strict_config |-> FALSE] }

VARIABLES
    LOGGING_CONFIG,   \* the configuration table of the process
    loggerDict,       \* logging's registry: name -> logger object
    warned,           \* get_logger._warned_loggers
    provisioned,      \* names whose configuration block ran to its end
    stdout,           \* lines written to sys.stdout, in order
    dirs,             \* directories that exist
    files,            \* <<dir, filename, index>> -> records of the file
    rotations,        \* <<dir, filename>> -> number of rollovers done
    nextMsg,          \* id of the next record a caller logs
    lastCall,         \* the operation that led to this state, and its outcome
    disk,             \* the filesystem tree: path -> [kind, id]
    now,              \* the wall clock, in ticks
    lastMove,         \* the last relocation call, and its outcome
    filename,         \* the argument of sanitize_filename
    sanitized,        \* what sanitize_filename returned for it
    resanitized,      \* what sanitize_filename returned for that result
    pathArgs,         \* the arguments of resolve_path
    resolved,         \* what resolve_path did with them
    threads,          \* threads inside get_logger: thread -> position, locals
    procs,            \* processes inside move_uuid_folder: process -> position, locals
    rows,             \* table ingest_item: id -> stored row
    item,             \* the IngestItem instance a caller holds
    lastDiary,        \* the last diary service call, and its outcome
    diaryConfig       \* diary_config.config of the process

logVars ==
    <<LOGGING_CONFIG, loggerDict, warned, provisioned, stdout, dirs, files,
      rotations, nextMsg, lastCall>>

moveVars == <<disk, now, lastMove>>

sanitizeVars == <<filename, sanitized>>

resolveVars == <<pathArgs, resolved>>

diaryVars == <<rows, item, lastDiary, diaryConfig>>

\* What the logging, relocation and sanitize_filename operations of one
\* caller never touch.
restVars == <<resanitized, resolveVars, threads, procs, diaryVars>>

vars == <<logVars, moveVars, sanitizeVars, restVars>>

\* ------------------------------------------------------------------------
\* dict helpers
\* ------------------------------------------------------------------------
\* d.get(key, dflt)
Get(d, key, dflt) == IF key \in DOMAIN d THEN d[key] ELSE dflt

\* {**a, **b}
Merge(a, b) ==
    [k \in DOMAIN a \cup DOMAIN b |-> IF k \in DOMAIN b THEN b[k] ELSE a[k]]

\* if val is not None: d[key] = val
SetIfGiven(d, key, val) ==
    IF val = None THEN d
    ELSE [k \in DOMAIN d \cup {key} |-> IF k = key THEN val ELSE d[k]]

EmptyDict == [k \in {} |-> None]

\* ------------------------------------------------------------------------
\* Objects
\* ------------------------------------------------------------------------
\* A logger as logging.getLogger creates it: level NOTSET, propagating, no
\* handlers. id stands for the identity of the object.
NewLogger(id) == [id |-> id, level |-> 0, propagate |-> TRUE, handlers |-> <<>>]

\* logging.StreamHandler(sys.stdout) with its level set
NewConsoleHandler(level) ==
    [kind |-> "console", level |-> level, path |-> <<>>,
     maxBytes |-> 0, backupCount |-> 0]

\* A mis-ordered call: the two limits exchanged.
SwappedRotatingFileHandler(log_path, max_bytes, backup_count) ==
    [kind |-> "file", level |-> 0, path |-> log_path,
     maxBytes |-> backup_count, backupCount |-> max_bytes]

\* logging.handlers.RotatingFileHandler(log_path, maxBytes=max_bytes,
\* backupCount=backup_count, encoding='utf-8'): level NOTSET until set
NewRotatingFileHandler(log_path, max_bytes, backup_count) ==
    [kind |-> "file", level |-> 0, path |-> log_path,
     maxBytes |-> max_bytes, backupCount |-> backup_count]

\* The file a handler writes to (index 0) and its numbered backups.
FileKey(path, i) == <<path[1], path[2], i>>

\* The record of one operation and its outcome: the arguments of a get_logger
\* call, the level of a set_console_level or logging call, the id and length
\* of the logged record, the exception raised or "ok", the handle returned,
\* and whether get_logger found the logger without handlers.
CallRec(op, name, dir, clevel, flevel, level, id, len, result, ret, fresh) ==
    [op |-> op, name |-> name, log_dir |-> dir,
     console_level |-> clevel, file_level |-> flevel,
     level |-> level, id |-> id, len |-> len,
     result |-> result, ret |-> ret, configured |-> fresh]

\* ------------------------------------------------------------------------
\* Helper functions of logging_config.py
\* ------------------------------------------------------------------------
\* get_script_directory() / DEFAULT_LOG_DIR
ScriptLogDir == "SCRIPT_DIR/logs"

determine_log_dir(base_dir) ==
    IF base_dir = None THEN ScriptLogDir ELSE base_dir

\* Returns the directories and files after the call, the handler, and the
\* exception raised (None when the handler is returned). The directory is
\* made and the file is opened (created when missing) before the level name
\* is looked up.
create_rotating_file_handler(ds, fs, log_path, level, max_bytes, backup_count) ==
    LET ds1 == ds \cup {log_path[1]}
        base == FileKey(log_path, 0)
        fs1 == IF base \in DOMAIN fs THEN fs
               ELSE [k \in DOMAIN fs \cup {base} |->
                        IF k = base THEN <<>> ELSE fs[k]]
        handler == NewRotatingFileHandler(log_path, max_bytes, backup_count)
    IN  IF HasLevel(level)
        THEN [dirs |-> ds1, files |-> fs1,
              handler |-> [handler EXCEPT !.level = GetLevel(level)],
              raised |-> None]
        ELSE [dirs |-> ds1, files |-> fs1, handler |-> handler,
              raised |-> "AttributeError"]

\* ------------------------------------------------------------------------
\* get_logger
\* ------------------------------------------------------------------------
IsKnown(logger_name) == logger_name \in DOMAIN LOGGING_CONFIG.loggers

\* No strict check at all.
NeverRejects(logger_name) == FALSE

\* if strict_config and logger_name not in LOGGING_CONFIG["loggers"]: raise
StrictRejects(logger_name) ==
    LOGGING_CONFIG.strict_config /\ ~IsKnown(logger_name)

\* The warned-name cache is not consulted.
WarnsEveryCall(logger_name) ==
    ~LOGGING_CONFIG.strict_config /\ ~IsKnown(logger_name)

\* Warn once about unknown loggers in non-strict mode
ShouldWarn(logger_name) ==
    /\ ~LOGGING_CONFIG.strict_config
    /\ ~IsKnown(logger_name)
    /\ logger_name \notin warned

\* The merge the other way round: defaults win over the entry.
DefaultsWin(logger_name) ==
    Merge(Get(LOGGING_CONFIG.loggers, logger_name, EmptyDict),
          LOGGING_CONFIG.defaults)

\* config = {**defaults, **logger_config}
MergedConfig(logger_name) ==
    Merge(LOGGING_CONFIG.defaults,
          Get(LOGGING_CONFIG.loggers, logger_name, EmptyDict))

\* Apply parameter overrides
ResolvedConfig(logger_name, log_dir, console_level, file_level) ==
    SetIfGiven(
        SetIfGiven(
            SetIfGiven(MergedConfig(logger_name),
                       "console_level", console_level),
            "file_level", file_level),
        "log_dir", log_dir)

\* The guard left out: every call configures.
AlwaysConfigure(logger) == TRUE

\* if not logger.handlers
NeedsConfiguration(logger) == logger.handlers = <<>>

\* logger.setLevel(logging.INFO) instead of DEBUG
LoggerLevelInfo == LevelValue["INFO"]

\* logger.setLevel(logging.DEBUG)
LoggerLevelAtProvisioning == LevelValue["DEBUG"]

\* The console sink created whatever the configuration says.
ConsoleAlways(config) == TRUE

\* config.get("console_output", True)
ConsoleEnabled(config) == Get(config, "console_output", TRUE)

\* The file sink switched by the console key.
FileByConsoleKey(config) == Get(config, "console_output", TRUE)

\* config.get("file_output", True)
FileEnabled(config) == Get(config, "file_output", TRUE)

\* An existing logger whose handler levels are set again from this call.
ReapplyLevels(logger, config) ==
    [logger EXCEPT !.handlers =
        [i \in DOMAIN logger.handlers |->
            LET h == logger.handlers[i]
                key == IF h.kind = "console" THEN "console_level"
                       ELSE "file_level"
            IN  IF HasLevel(config[key])
                THEN [h EXCEPT !.level = GetLevel(config[key])]
                ELSE h]]

\* A logger that has handlers is returned as it is.
ReuseExisting(logger, config) == logger

\* The console part of the configuration block. st is the state of the call:
\* the logger, the directories, the files and the exception raised so far.
ConsoleStep(st, config) ==
    IF ~ConsoleEnabled(config) THEN st
    ELSE IF ~HasLevel(config["console_level"])
         THEN [st EXCEPT !.raised = "AttributeError"]
         ELSE [st EXCEPT !.logger.handlers =
                  Append(@, NewConsoleHandler(GetLevel(config["console_level"])))]

\* The file part of the configuration block.
FileStep(st, config, logger_name) ==
    IF st.raised # None \/ ~FileEnabled(config) THEN st
    ELSE LET log_dir == determine_log_dir(Get(config, "log_dir", None))
             log_filename == Get(config, "log_filename",
                                 <<logger_name, ".log">>)
             log_file == <<log_dir, log_filename>>
             rotation == Get(config, "rotation", EmptyDict)
             max_bytes == Get(rotation, "max_bytes", RotationMaxBytes)
             backup_count == Get(rotation, "backup_count", RotationBackupCount)
             made == create_rotating_file_handler(
                        st.dirs, st.files, log_file, config["file_level"],
                        max_bytes, backup_count)
         IN  IF made.raised # None
             THEN [st EXCEPT !.dirs = made.dirs, !.files = made.files,
                             !.raised = made.raised]
             ELSE [st EXCEPT !.dirs = made.dirs, !.files = made.files,
                             !.logger.handlers = Append(@, made.handler)]

\* The whole body of "if not logger.handlers:".
Configure(logger, config, logger_name) ==
    FileStep(
        ConsoleStep(
            [logger |-> [logger EXCEPT !.level = LoggerLevelAtProvisioning,
                                       !.propagate = FALSE],
             dirs |-> dirs, files |-> files, raised |-> None],
            config),
        config, logger_name)

get_logger(logger_name, log_dir, console_level, file_level) ==
    IF StrictRejects(logger_name)
    THEN /\ lastCall' = CallRec("get_logger", logger_name, log_dir,
                                console_level, file_level, None, 0, 0,
                                "ValueError", 0, FALSE)
         /\ UNCHANGED <<LOGGING_CONFIG, loggerDict, warned, provisioned,
                        stdout, dirs, files, rotations, nextMsg>>
    ELSE
      LET warn == ShouldWarn(logger_name)
          config == ResolvedConfig(logger_name, log_dir, console_level,
                                   file_level)
          \* logging.getLogger(logger_name): the registered object, or a new one
          logger == IF logger_name \in DOMAIN loggerDict
                    THEN loggerDict[logger_name]
                    ELSE NewLogger(Cardinality(DOMAIN loggerDict) + 1)
          fresh == NeedsConfiguration(logger)
          st == IF fresh
                THEN Configure(logger, config, logger_name)
                ELSE [logger |-> ReuseExisting(logger, config), dirs |-> dirs,
                      files |-> files, raised |-> None]
      IN  /\ warned' = IF warn THEN warned \cup {logger_name} ELSE warned
          /\ stdout' = IF warn
                       THEN Append(stdout, [kind |-> "warning",
                                            name |-> logger_name, id |-> 0])
                       ELSE stdout
          /\ loggerDict' = [n \in DOMAIN loggerDict \cup {logger_name} |->
                               IF n = logger_name THEN st.logger
                               ELSE loggerDict[n]]
          /\ provisioned' = IF fresh /\ st.raised = None
                            THEN provisioned \cup {logger_name}
                            ELSE provisioned
          /\ dirs' = st.dirs
          /\ files' = st.files
          /\ lastCall' = CallRec("get_logger", logger_name, log_dir,
                                 console_level, file_level, None, 0, 0,
                                 IF st.raised = None THEN "ok" ELSE st.raised,
                                 IF st.raised = None THEN st.logger.id ELSE 0,
                                 fresh)
          /\ UNCHANGED <<LOGGING_CONFIG, rotations, nextMsg>>

GetLogger ==
    /\ UNCHANGED <<moveVars, sanitizeVars, restVars>>
    /\ \E logger_name \in Names, args \in OverrideArgs :
        get_logger(logger_name, args[1], args[2], args[3])

\* ------------------------------------------------------------------------
\* get_logger called by two threads of one process. A thread can be
\* suspended between any two statements; logging.getLogger and
\* Logger.addHandler each run under the logging module's lock.
\* ------------------------------------------------------------------------
ThreadIds == {"t1", "t2"}

\* A thread inside get_logger: where it is, its arguments, the length of
\* logger.handlers its check saw (-1 before the check), and how the call
\* ended.
ThreadRec(pc, logger_name, args, found, result) ==
    [pc |-> pc, logger_name |-> logger_name, args |-> args, found |-> found,
     result |-> result]

ThreadStart(logger_name, args) == ThreadRec("call", logger_name, args, -1, None)

ThreadAt(t, pc) == threads[t].pc = pc

ThreadGoes(t, pc, found, result) ==
    threads' = [threads EXCEPT ![t] =
                   ThreadRec(pc, @.logger_name, @.args, found, result)]

ThreadConfig(t) ==
    ResolvedConfig(threads[t].logger_name, threads[t].args[1],
                   threads[t].args[2], threads[t].args[3])

\* The state of the configuration block of a thread that is about to run a
\* part of it: the registered logger and the filesystem as they are now.
ThreadState(t) ==
    [logger |-> loggerDict[threads[t].logger_name], dirs |-> dirs,
     files |-> files, raised |-> None]

\* Lines 221-251: the strict check, the warning, the merge and
\* logging.getLogger.
ThreadEnter(t) ==
    LET logger_name == threads[t].logger_name
        warn == ShouldWarn(logger_name)
    IN  /\ ThreadAt(t, "call")
        /\ IF StrictRejects(logger_name)
           THEN /\ ThreadGoes(t, "done", -1, "ValueError")
                /\ UNCHANGED <<loggerDict, warned, stdout>>
           ELSE /\ ThreadGoes(t, "check", -1, None)
                /\ warned' = IF warn THEN warned \cup {logger_name} ELSE warned
                /\ stdout' = IF warn
                             THEN Append(stdout, [kind |-> "warning",
                                                  name |-> logger_name, id |-> 0])
                             ELSE stdout
                /\ loggerDict' =
                     IF logger_name \in DOMAIN loggerDict THEN loggerDict
                     ELSE [n \in DOMAIN loggerDict \cup {logger_name} |->
                             IF n = logger_name
                             THEN NewLogger(Cardinality(DOMAIN loggerDict) + 1)
                             ELSE loggerDict[n]]
        /\ UNCHANGED <<LOGGING_CONFIG, provisioned, dirs, files, rotations,
                       nextMsg, lastCall>>

\* Line 254: if not logger.handlers
ThreadCheck(t) ==
    LET logger == loggerDict[threads[t].logger_name]
    IN  /\ ThreadAt(t, "check")
        /\ IF NeedsConfiguration(logger)
           THEN ThreadGoes(t, "console", Len(logger.handlers), None)
           ELSE ThreadGoes(t, "done", Len(logger.handlers), "ok")
        /\ UNCHANGED logVars

\* Lines 255-269: setLevel, propagate, and the console handler.
ThreadConsole(t) ==
    LET st0 == ThreadState(t)
        st == ConsoleStep(
                  [st0 EXCEPT !.logger.level = LoggerLevelAtProvisioning,
                              !.logger.propagate = FALSE],
                  ThreadConfig(t))
    IN  /\ ThreadAt(t, "console")
        /\ loggerDict' = [loggerDict EXCEPT ![threads[t].logger_name] = st.logger]
        /\ IF st.raised = None
           THEN ThreadGoes(t, "file", threads[t].found, None)
           ELSE ThreadGoes(t, "done", threads[t].found, st.raised)
        /\ UNCHANGED <<LOGGING_CONFIG, warned, provisioned, stdout, dirs,
                       files, rotations, nextMsg, lastCall>>

\* Lines 272-292: the rotating file handler, and the return.
ThreadFile(t) ==
    LET st == FileStep(ThreadState(t), ThreadConfig(t), threads[t].logger_name)
    IN  /\ ThreadAt(t, "file")
        /\ loggerDict' = [loggerDict EXCEPT ![threads[t].logger_name] = st.logger]
        /\ dirs' = st.dirs
        /\ files' = st.files
        /\ provisioned' = IF st.raised = None
                          THEN provisioned \cup {threads[t].logger_name}
                          ELSE provisioned
        /\ ThreadGoes(t, "done", threads[t].found,
                      IF st.raised = None THEN "ok" ELSE st.raised)
        /\ UNCHANGED <<LOGGING_CONFIG, warned, stdout, rotations, nextMsg,
                       lastCall>>

ThreadStep(t) ==
    /\ \/ ThreadEnter(t)
       \/ ThreadCheck(t)
       \/ ThreadConsole(t)
       \/ ThreadFile(t)
    /\ UNCHANGED <<moveVars, sanitizeVars, resanitized, resolveVars, procs,
                   diaryVars>>

\* Two threads about to call get_logger for one name, each with its own
\* overrides.
ThreadStarts ==
    { [t \in ThreadIds |-> ThreadStart(logger_name, args[t])] :
        logger_name \in Names, args \in [ThreadIds -> OverrideArgs] }

\* ------------------------------------------------------------------------
\* set_console_level
\* ------------------------------------------------------------------------
\* Every stream handler, the file handler included.
IsStreamHandler(h) == h.kind \in {"console", "file"}

\* isinstance(handler, logging.StreamHandler)
\*   and not isinstance(handler, logging.FileHandler)
IsConsoleHandler(h) == h.kind = "console"

set_console_level(logger_name, level) ==
    /\ logger_name \in DOMAIN loggerDict
    /\ IF ~HasLevel(level)
       THEN /\ lastCall' = CallRec("set_console_level", logger_name, None,
                                   None, None, level, 0, 0,
                                   "AttributeError", 0, FALSE)
            /\ UNCHANGED loggerDict
       ELSE /\ loggerDict' =
                [loggerDict EXCEPT ![logger_name].handlers =
                    [i \in DOMAIN @ |->
                        IF IsConsoleHandler(@[i])
                        THEN [@[i] EXCEPT !.level = GetLevel(level)]
                        ELSE @[i]]]
            /\ lastCall' = CallRec("set_console_level", logger_name, None,
                                   None, None, level, 0, 0, "ok", 0, FALSE)
    /\ UNCHANGED <<LOGGING_CONFIG, warned, provisioned, stdout, dirs, files,
                   rotations, nextMsg>>

SetConsoleLevel ==
    /\ UNCHANGED <<moveVars, sanitizeVars, restVars>>
    /\ \E logger_name \in Names, level \in SetLevelArgs :
        set_console_level(logger_name, level)

\* ------------------------------------------------------------------------
\* Writing a record: logger.log -> handler.emit, with the rollover of
\* RotatingFileHandler
\* ------------------------------------------------------------------------
RECURSIVE Size(_)
Size(content) ==
    IF content = <<>> THEN 0 ELSE Head(content).len + Size(Tail(content))

\* os.rename(src, dst), dst absent
Rename(fs, src, dst) ==
    [k \in (DOMAIN fs \ {src}) \cup {dst} |->
        IF k = dst THEN fs[src] ELSE fs[k]]

\* os.remove(f) when os.path.exists(f)
RemoveIfExists(fs, f) == [k \in DOMAIN fs \ {f} |-> fs[k]]

\* for i in range(backupCount - 1, 0, -1): move <name>.i to <name>.(i+1)
RECURSIVE ShiftBackups(_, _, _)
ShiftBackups(fs, path, i) ==
    IF i < 1 THEN fs
    ELSE LET sfn == FileKey(path, i)
             dfn == FileKey(path, i + 1)
         IN  ShiftBackups(
                 IF sfn \in DOMAIN fs
                 THEN Rename(RemoveIfExists(fs, dfn), sfn, dfn)
                 ELSE fs,
                 path, i - 1)

\* RotatingFileHandler.shouldRollover
ShouldRollover(h, fs, len) ==
    /\ h.maxBytes > 0
    /\ Size(fs[FileKey(h.path, 0)]) + len >= h.maxBytes

\* RotatingFileHandler.doRollover: close the stream, shift the backups, move
\* the active file to <name>.1 and open a fresh active file. With
\* backupCount = 0 the same file is reopened for appending.
DoRollover(h, fs) ==
    IF h.backupCount > 0
    THEN LET shifted == ShiftBackups(fs, h.path, h.backupCount - 1)
             dfn == FileKey(h.path, 1)
             base == FileKey(h.path, 0)
             moved == Rename(RemoveIfExists(shifted, dfn), base, dfn)
         IN  [k \in DOMAIN moved \cup {base} |->
                 IF k = base THEN <<>> ELSE moved[k]]
    ELSE fs

Rotations(rs, path) == Get(rs, path, 0)

\* handler.emit(record) for one handler. out is the state of the outputs:
\* stdout, files, rotations.
Emit(h, out, logger_name, id, len) ==
    IF h.kind = "console"
    THEN [out EXCEPT !.stdout =
             Append(@, [kind |-> "record", name |-> logger_name, id |-> id])]
    ELSE LET roll == ShouldRollover(h, out.files, len)
             fs1 == IF roll THEN DoRollover(h, out.files) ELSE out.files
             rs1 == IF roll
                    THEN [p \in DOMAIN out.rotations \cup {h.path} |->
                             IF p = h.path
                             THEN Rotations(out.rotations, p) + 1
                             ELSE out.rotations[p]]
                    ELSE out.rotations
             base == FileKey(h.path, 0)
         IN  [out EXCEPT
                 !.files = [fs1 EXCEPT ![base] =
                               Append(@, [id |-> id, len |-> len,
                                          gen |-> Rotations(rs1, h.path)])],
                 !.rotations = rs1]

\* Logger.callHandlers: every handler whose level the record reaches, in order
RECURSIVE CallHandlers(_, _, _, _, _, _)
CallHandlers(hs, out, logger_name, severity, id, len) ==
    IF hs = <<>> THEN out
    ELSE CallHandlers(
             Tail(hs),
             IF severity >= Head(hs).level
             THEN Emit(Head(hs), out, logger_name, id, len)
             ELSE out,
             logger_name, severity, id, len)

\* Logger.getEffectiveLevel: a logger whose level was never set inherits the
\* root logger's WARNING
EffectiveLevel(logger) ==
    IF logger.level = 0 THEN LevelValue["WARNING"] ELSE logger.level

\* logger.debug(...), logger.warning(...) on the handle of logger_name, the
\* formatted record being len characters long
log(logger_name, level, len, limit) ==
    /\ logger_name \in DOMAIN loggerDict
    /\ nextMsg <= limit
    /\ LET logger == loggerDict[logger_name]
           severity == LevelValue[level]
           out0 == [stdout |-> stdout, files |-> files,
                    rotations |-> rotations]
           out == IF severity >= EffectiveLevel(logger)
                  THEN CallHandlers(logger.handlers, out0, logger_name,
                                    severity, nextMsg, len)
                  ELSE out0
       IN  /\ stdout' = out.stdout
           /\ files' = out.files
           /\ rotations' = out.rotations
           /\ lastCall' = CallRec("log", logger_name, None, None, None,
                                  level, nextMsg, len, "ok", 0, FALSE)
    /\ nextMsg' = nextMsg + 1
    /\ UNCHANGED <<LOGGING_CONFIG, loggerDict, warned, provisioned, dirs>>

Log ==
    /\ UNCHANGED <<moveVars, sanitizeVars, restVars>>
    /\ \E logger_name \in Names, level \in Severities, len \in MsgLens :
        log(logger_name, level, len, MaxMsgs)

\* ------------------------------------------------------------------------
\* Paths and the filesystem tree (pathlib.Path, os, shutil as
\* file_move_utils.py calls them)
\* ------------------------------------------------------------------------
\* Wall-clock ticks in one second: two calls can fall into the same second.
TicksPerSecond == 2

\* Last tick of the wall clock in one run.
MaxClock == 2

\* Number of relocation calls in one run.
MaxMoves == 2

\* A path is a sequence of components. A component is <<name, stamps>>: the
\* text name followed by "-<timestamp>" for every element of stamps.
Comp(text) == <<text, <<>>>>

Path1(a) == <<Comp(a)>>

Path2(a, b) == <<Comp(a), Comp(b)>>

Path3(a, b, c) == <<Comp(a), Comp(b), Comp(c)>>

\* No path: the value of a call that raised.
NoPath == <<>>

\* datetime.now().strftime("%Y%m%d-%H%M%S"): the clock cut to whole seconds.
strftime(t) == t \div TicksPerSecond

\* f"{folder_name}-{timestamp}"
WithTimestamp(comp, timestamp) == <<comp[1], Append(comp[2], timestamp)>>

\* Path.parent and Path.name
PathParent(p) == SubSeq(p, 1, Len(p) - 1)

PathName(p) == p[Len(p)]

IsPrefix(p, q) == Len(p) <= Len(q) /\ SubSeq(q, 1, Len(p)) = p

\* The mutant of IsRelativeTo: every source is accepted.
AnyRoot(p, root) == TRUE

\* Path.relative_to(root): defined when root is a prefix of p (a comparison
\* of the paths' components, it does not look at the disk).
IsRelativeTo(p, root) == IsPrefix(root, p)

RelativeTo(p, root) == SubSeq(p, Len(root) + 1, Len(p))

\* Path.exists and Path.is_dir
PathExists(d, p) == p \in DOMAIN d

PathIsDir(d, p) == p \in DOMAIN d /\ d[p].kind = "dir"

Dir(id) == [kind |-> "dir", id |-> id]

File(id) == [kind |-> "file", id |-> id]

EmptyDisk == [p \in {} |-> Dir(0)]

Prefixes(p) == { SubSeq(p, 1, i) : i \in 1..Len(p) }

\* Path.mkdir(parents=True, exist_ok=True): every missing directory on the
\* way to p is created; a file on the way makes it raise.
MkdirRaises(d, p) == \E q \in Prefixes(p) : q \in DOMAIN d /\ d[q].kind = "file"

Mkdir(d, p) ==
    [q \in DOMAIN d \cup Prefixes(p) |-> IF q \in DOMAIN d THEN d[q] ELSE Dir(0)]

\* The entries below p, as paths relative to p (<<>> is p itself).
RelEntries(d, p) == { RelativeTo(q, p) : q \in { r \in DOMAIN d : IsPrefix(p, r) } }

\* The subtree rooted at p: relative path -> entry.
Subtree(d, p) == [r \in RelEntries(d, p) |-> d[p \o r]]

\* The disk without the entries rels of the subtree at p.
Without(d, p, rels) ==
    [q \in DOMAIN d \ { p \o r : r \in rels } |-> d[q]]

\* The disk with the entries rels of sub placed below p.
With(d, p, sub, rels) ==
    [q \in DOMAIN d \cup { p \o r : r \in rels } |->
        IF q \in DOMAIN d THEN d[q] ELSE sub[RelativeTo(q, p)]]

\* os.rename(src, dst) of a directory: the subtree changes its root.
os_rename(d, src, dst) ==
    LET sub == Subtree(d, src)
    IN  With(Without(d, src, DOMAIN sub), dst, sub, DOMAIN sub)

\* os.rename succeeds when the target's parent is a directory and the target
\* is free; the platform can still refuse it (another device, permissions).
CanRename(d, src, dst) ==
    /\ PathIsDir(d, PathParent(dst))
    /\ ~PathExists(d, dst)
    /\ ~IsPrefix(src, dst)

\* One way a filesystem call of the standard library can end.
Outcome(d, raised) == [disk |-> d, raised |-> raised]

PrefixClosed(rels) == \A r \in rels : r # <<>> => PathParent(r) \in rels

DescendantClosed(sub, rels) ==
    \A r \in rels : \A q \in DOMAIN sub : IsPrefix(r, q) => q \in rels

\* shutil.copytree(src, dst): os.makedirs(dst), then one copy per entry; an
\* entry that fails is skipped and reported in the Error raised at the end.
copytree(d, src, dst) ==
    IF PathExists(d, dst) \/ MkdirRaises(d, PathParent(dst))
    THEN { Outcome(d, "FileExistsError") }
    ELSE LET sub == Subtree(d, src)
             made == Mkdir(d, PathParent(dst))
         IN  { Outcome(With(made, dst, sub, rels), "Error") :
                 rels \in { c \in SUBSET DOMAIN sub : PrefixClosed(c) } }
             \cup { Outcome(With(made, dst, sub, DOMAIN sub), None) }

\* shutil.rmtree(src): entries are removed bottom-up until one cannot be.
rmtree(d, src) ==
    LET sub == Subtree(d, src)
    IN  { Outcome(Without(d, src, rels), "PermissionError") :
            rels \in { c \in SUBSET DOMAIN sub :
                         DescendantClosed(sub, c) /\ <<>> \notin c } }
        \cup { Outcome(Without(d, src, DOMAIN sub), None) }

\* shutil.move falls back on copytree followed by rmtree when os.rename is
\* refused.
CopyThenRemove(d, src, dst, real_dst) ==
    IF IsPrefix(src, dst)
    THEN { Outcome(d, "Error") }
    ELSE UNION { IF c.raised = None THEN rmtree(c.disk, src) ELSE { c } :
                   c \in copytree(d, src, real_dst) }

\* shutil.move(src, dst) of a directory src: into dst when dst is a
\* directory, onto dst otherwise.
shutil_move(d, src, dst) ==
    LET real_dst == IF PathIsDir(d, dst) THEN Append(dst, PathName(src))
                    ELSE dst
    IN  IF PathIsDir(d, dst) /\ src = dst
        THEN { Outcome(d, None) }
        ELSE IF PathIsDir(d, dst) /\ PathExists(d, real_dst)
        THEN { Outcome(d, "Error") }
        ELSE (IF CanRename(d, src, real_dst)
              THEN { Outcome(os_rename(d, src, real_dst), None) }
              ELSE {})
             \cup CopyThenRemove(d, src, dst, real_dst)

\* ------------------------------------------------------------------------
\* move_uuid_folder and move_uuid_folder_with_hierarchy
\* ------------------------------------------------------------------------
\* The folders and roots callers pass. downloads/u, downloads/g/u and
\* elsewhere/u are folders of the same name; downloads/note is a file and
\* downloads/missing does not exist.
Sources ==
    { Path2("downloads", "u"), Path3("downloads", "g", "u"),
      Path2("elsewhere", "u"), Path2("downloads", "note"),
      Path2("downloads", "missing") }

ProcessedRoots == { Path1("processed") }

DownloadRoots == { Path1("downloads") }

\* The disk before the first call: the download area, a folder outside it,
\* and no processed directory.
FreshDisk ==
    (<<>> :> Dir(0))
    @@ (Path1("downloads") :> Dir(1))
    @@ (Path2("downloads", "u") :> Dir(2))
    @@ (Path3("downloads", "u", "f") :> File(3))
    @@ (Path2("downloads", "g") :> Dir(4))
    @@ (Path3("downloads", "g", "u") :> Dir(5))
    @@ (Path3("downloads", "g", "u") \o Path1("f") :> File(6))
    @@ (Path2("downloads", "note") :> File(7))
    @@ (Path1("elsewhere") :> Dir(8))
    @@ (Path2("elsewhere", "u") :> Dir(9))

\* The same disk with a processed directory that already holds a folder u.
UsedDisk ==
    FreshDisk
    @@ (Path1("processed") :> Dir(10))
    @@ (Path2("processed", "u") :> Dir(11))
    @@ (Path3("processed", "u", "k") :> File(12))

StartDisks == { FreshDisk, UsedDisk }

MoveRec(op, src, root, dl, result, msg, cause, ret, dest, at_move, trace, n) ==
    [op |-> op, source_folder |-> src, processed_root |-> root,
     download_root |-> dl, result |-> result, msg |-> msg, cause |-> cause,
     ret |-> ret, destination |-> dest, at_move |-> at_move,
     trace |-> trace, n |-> n]

NoMove ==
    MoveRec("init", NoPath, NoPath, NoPath, "ok", None, None, NoPath, NoPath,
            EmptyDisk, <<>>, 0)

\* The exception class raised for a source that is missing or not a
\* directory (raise ValueError), and the one raised for a source outside the
\* download root (raise ValueError).
InvalidSourceError == "ValueError"

PathHierarchyError == "ValueError"

\* The mutant of InvalidSource: only a missing source is rejected.
MissingOnly(d, p) ==
    IF ~PathExists(d, p) THEN "Source folder does not exist" ELSE None

\* The two checks both functions begin with: the message of the ValueError
\* they raise, None when the source is an existing directory.
InvalidSource(d, p) ==
    IF ~PathExists(d, p) THEN "Source folder does not exist"
    ELSE IF ~PathIsDir(d, p) THEN "Source path is not a directory"
    ELSE None

\* The mutant of TimestampedName: the colliding name is used as it is.
SameName(folder_name, t) == folder_name

\* new_folder_name = f"{folder_name}-{timestamp}" with the timestamp read
\* from the clock at the moment the collision is seen.
TimestampedName(folder_name, t) == WithTimestamp(folder_name, strftime(t))

\* The mutant of JoinRelative: only the folder's name is kept.
JoinName(root, relative_path) ==
    IF relative_path = <<>> THEN root
    ELSE Append(root, PathName(relative_path))

\* destination = processed_root / relative_path
JoinRelative(root, relative_path) == root \o relative_path

\* The mutant of AttemptTrace: the attempt is logged after the processed
\* root has been created.
CreateThenAttempt(create, collides) ==
    (IF create THEN <<"info:creating", "mkdir">> ELSE <<>>)
    \o <<"debug:attempt">>
    \o (IF collides THEN <<"warning:exists">> ELSE <<>>)

\* The logger calls and filesystem calls of a run with a valid source, in
\* the order of the code, up to the collision check: logger.debug, then
\* logger.info and mkdir when the processed root is missing, then
\* logger.warning when the destination is taken.
AttemptTrace(create, collides) ==
    <<"debug:attempt">>
    \o (IF create THEN <<"info:creating", "mkdir">> ELSE <<>>)
    \o (IF collides THEN <<"warning:exists">> ELSE <<>>)

MoveRaise(op, src, root, dl, result, msg, trace) ==
    MoveRec(op, src, root, dl, result, msg, None, NoPath, NoPath, EmptyDisk,
            trace, lastMove.n + 1)

move_uuid_folder(source_folder, processed_root) ==
    LET op == "move_uuid_folder"
        invalid == InvalidSource(disk, source_folder)
        create == ~PathExists(disk, processed_root)
    IN
    IF invalid # None
    THEN /\ lastMove' = MoveRaise(op, source_folder, processed_root, NoPath,
                                  InvalidSourceError, invalid,
                                  <<"debug:attempt", "error:invalid">>)
         /\ UNCHANGED disk
    ELSE IF create /\ MkdirRaises(disk, processed_root)
    THEN /\ lastMove' = MoveRaise(op, source_folder, processed_root, NoPath,
                                  "FileExistsError", None,
                                  <<"debug:attempt", "info:creating">>)
         /\ UNCHANGED disk
    ELSE
        LET d1 == IF create THEN Mkdir(disk, processed_root) ELSE disk
            folder_name == PathName(source_folder)
            naive == Append(processed_root, folder_name)
            collides == PathExists(d1, naive)
            destination ==
                IF collides
                THEN Append(processed_root, TimestampedName(folder_name, now))
                ELSE naive
            trace ==
                AttemptTrace(create, collides) \o <<"info:moving", "move">>
        IN  \E out \in shutil_move(d1, source_folder, destination) :
                /\ disk' = out.disk
                /\ lastMove' =
                     IF out.raised = None
                     THEN MoveRec(op, source_folder, processed_root, NoPath,
                                  "ok", None, None, destination, destination,
                                  d1, trace \o <<"info:moved">>,
                                  lastMove.n + 1)
                     ELSE MoveRec(op, source_folder, processed_root, NoPath,
                                  "OSError", "Failed to move folder",
                                  out.raised, NoPath, destination, d1,
                                  trace \o <<"error:failed">>, lastMove.n + 1)

MoveUuidFolder ==
    /\ lastMove.n < MaxMoves
    /\ UNCHANGED <<logVars, sanitizeVars, restVars, now>>
    /\ \E source_folder \in Sources, processed_root \in ProcessedRoots :
        move_uuid_folder(source_folder, processed_root)

move_uuid_folder_with_hierarchy(source_folder, processed_root, download_root) ==
    LET op == "move_uuid_folder_with_hierarchy"
        invalid == InvalidSource(disk, source_folder)
        create == ~PathExists(disk, processed_root)
    IN
    IF invalid # None
    THEN /\ lastMove' = MoveRaise(op, source_folder, processed_root,
                                  download_root, InvalidSourceError, invalid,
                                  <<"debug:attempt", "error:invalid">>)
         /\ UNCHANGED disk
    ELSE IF ~IsRelativeTo(source_folder, download_root)
    THEN /\ lastMove' = MoveRaise(op, source_folder, processed_root,
                                  download_root, PathHierarchyError,
                                  "Source folder is not within download root",
                                  <<"debug:attempt", "error:outside">>)
         /\ UNCHANGED disk
    ELSE IF create /\ MkdirRaises(disk, processed_root)
    THEN /\ lastMove' = MoveRaise(op, source_folder, processed_root,
                                  download_root, "FileExistsError", None,
                                  <<"debug:attempt", "info:creating">>)
         /\ UNCHANGED disk
    ELSE
        LET d1 == IF create THEN Mkdir(disk, processed_root) ELSE disk
            relative_path == RelativeTo(source_folder, download_root)
            naive == JoinRelative(processed_root, relative_path)
            collides == PathExists(d1, naive)
            destination ==
                IF collides
                THEN Append(PathParent(naive),
                            TimestampedName(PathName(naive), now))
                ELSE naive
            trace == AttemptTrace(create, collides)
        IN
        IF MkdirRaises(d1, PathParent(destination))
        THEN /\ disk' = d1
             /\ lastMove' = MoveRec(op, source_folder, processed_root,
                                    download_root, "FileExistsError", None,
                                    None, NoPath, destination, EmptyDisk,
                                    trace, lastMove.n + 1)
        ELSE
            LET d2 == Mkdir(d1, PathParent(destination))
                issued == trace \o <<"mkdir", "info:moving", "move">>
            IN  \E out \in shutil_move(d2, source_folder, destination) :
                    /\ disk' = out.disk
                    /\ lastMove' =
                         IF out.raised = None
                         THEN MoveRec(op, source_folder, processed_root,
                                      download_root, "ok", None, None,
                                      destination, destination, d2,
                                      issued \o <<"info:moved">>,
                                      lastMove.n + 1)
                         ELSE MoveRec(op, source_folder, processed_root,
                                      download_root, out.raised, None,
                                      out.raised, NoPath, destination, d2,
                                      issued, lastMove.n + 1)

MoveUuidFolderWithHierarchy ==
    /\ lastMove.n < MaxMoves
    /\ UNCHANGED <<logVars, sanitizeVars, restVars, now>>
    /\ \E source_folder \in Sources, processed_root \in ProcessedRoots,
          download_root \in DownloadRoots :
        move_uuid_folder_with_hierarchy(source_folder, processed_root,
                                        download_root)

\* A small download area, and the callers that hand over the download root
\* itself or a folder in it.
SmallDisk ==
    (<<>> :> Dir(0))
    @@ (Path1("downloads") :> Dir(1))
    @@ (Path2("downloads", "u") :> Dir(2))
    @@ (Path3("downloads", "u", "f") :> File(3))

SmallUsedDisk == SmallDisk @@ (Path1("processed") :> Dir(10))

RootSources == { Path1("downloads"), Path2("downloads", "u") }

MoveFromDownloadRoot ==
    /\ lastMove.n < MaxMoves
    /\ UNCHANGED <<logVars, sanitizeVars, restVars, now>>
    /\ \E source_folder \in RootSources, processed_root \in ProcessedRoots,
          download_root \in DownloadRoots :
        move_uuid_folder_with_hierarchy(source_folder, processed_root,
                                        download_root)

\* ------------------------------------------------------------------------
\* move_uuid_folder called by two processes that share the filesystem and
\* hold no lock: a process can be suspended between any two statements.
\* shutil.move is taken as one step.
\* ------------------------------------------------------------------------
ProcIds == {"p1", "p2"}

\* A process inside move_uuid_folder: where it is, its arguments, the
\* identity of the folder it was handed, its local destination, the
\* exception raised or "ok", and the path returned.
ProcRec(pc, source_folder, processed_root, folder, destination, result, ret) ==
    [pc |-> pc, source_folder |-> source_folder,
     processed_root |-> processed_root, folder |-> folder,
     destination |-> destination, result |-> result, ret |-> ret]

ProcStart(d, source_folder, processed_root) ==
    ProcRec("call", source_folder, processed_root, d[source_folder].id,
            NoPath, None, NoPath)

ProcAt(p, pc) == procs[p].pc = pc

ProcGoes(p, pc, destination, result, ret) ==
    procs' = [procs EXCEPT ![p] =
                 ProcRec(pc, @.source_folder, @.processed_root, @.folder,
                         destination, result, ret)]

\* Lines 145-157: the source is validated.
ProcValidate(p) ==
    /\ ProcAt(p, "call")
    /\ IF InvalidSource(disk, procs[p].source_folder) # None
       THEN ProcGoes(p, "done", NoPath, InvalidSourceError, NoPath)
       ELSE ProcGoes(p, "ensure", NoPath, None, NoPath)
    /\ UNCHANGED <<disk, now>>

\* Lines 160-162: the processed root is created when missing.
ProcEnsure(p) ==
    LET processed_root == procs[p].processed_root
    IN  /\ ProcAt(p, "ensure")
        /\ IF PathExists(disk, processed_root)
           THEN /\ ProcGoes(p, "check", NoPath, None, NoPath)
                /\ UNCHANGED disk
           ELSE IF MkdirRaises(disk, processed_root)
           THEN /\ ProcGoes(p, "done", NoPath, "FileExistsError", NoPath)
                /\ UNCHANGED disk
           ELSE /\ ProcGoes(p, "check", NoPath, None, NoPath)
                /\ disk' = Mkdir(disk, processed_root)
        /\ UNCHANGED now

\* Lines 165-175: the destination is chosen after destination.exists().
ProcCheck(p) ==
    LET folder_name == PathName(procs[p].source_folder)
        naive == Append(procs[p].processed_root, folder_name)
    IN  /\ ProcAt(p, "check")
        /\ ProcGoes(p, "move",
                    IF PathExists(disk, naive)
                    THEN Append(procs[p].processed_root,
                                TimestampedName(folder_name, now))
                    ELSE naive,
                    None, NoPath)
        /\ UNCHANGED <<disk, now>>

\* Lines 178-186: shutil.move, and the return of destination.
ProcMove(p) ==
    /\ ProcAt(p, "move")
    /\ \E out \in shutil_move(disk, procs[p].source_folder,
                              procs[p].destination) :
        /\ disk' = out.disk
        /\ IF out.raised = None
           THEN ProcGoes(p, "done", procs[p].destination, "ok",
                         procs[p].destination)
           ELSE ProcGoes(p, "done", procs[p].destination, "OSError", NoPath)
    /\ UNCHANGED now

ProcStep(p) ==
    /\ \/ ProcValidate(p)
       \/ ProcEnsure(p)
       \/ ProcCheck(p)
       \/ ProcMove(p)
    /\ UNCHANGED <<logVars, sanitizeVars, resanitized, resolveVars, threads,
                   diaryVars, lastMove>>

\* Two processes handed two different folders of the same name, and the
\* same processed root.
ProcStarts(d) ==
    { ("p1" :> ProcStart(d, Path2("downloads", "u"), processed_root))
      @@ ("p2" :> ProcStart(d, Path2("elsewhere", "u"), processed_root)) :
        processed_root \in ProcessedRoots }

\* The wall clock advances between calls.
Tick ==
    /\ now < MaxClock
    /\ now' = now + 1
    /\ UNCHANGED <<logVars, sanitizeVars, restVars, disk, lastMove>>

\* ------------------------------------------------------------------------
\* sanitize_filename (file_sys_utils.py). A string is the sequence of its
\* characters.
\* ------------------------------------------------------------------------
\* The length ceiling of a sanitized name.
MaxFilenameLength == 255

\* Length of the names that are enumerated in full.
MaxShortLen == 2

\* How far past the ceiling the long names reach.
MaxOver == 2

\* The mutant of unsafe_chars: the asterisk is forgotten.
UnsafeWithoutAsterisk == {"<", ">", ":", "\"", "/", "\\", "|", "?"}

\* unsafe_chars = r'<>:"/\\|?*'
unsafe_chars == {"<", ">", ":", "\"", "/", "\\", "|", "?", "*"}

\* for char in unsafe_chars: sanitized = sanitized.replace(char, '_')
ReplaceUnsafe(s) ==
    [i \in 1..Len(s) |-> IF s[i] \in unsafe_chars THEN "_" ELSE s[i]]

\* str.strip(chars): the characters of chars are removed from both ends.
Strip(s, chars) ==
    LET keep == { i \in 1..Len(s) : s[i] \notin chars }
    IN  IF keep = {} THEN <<>>
        ELSE SubSeq(s, CHOOSE i \in keep : \A j \in keep : i <= j,
                       CHOOSE i \in keep : \A j \in keep : i >= j)

\* str.rfind(char), counted from 1; 0 when char does not occur.
RFind(s, char) ==
    LET at == { i \in 1..Len(s) : s[i] = char }
    IN  IF at = {} THEN 0 ELSE CHOOSE i \in at : \A j \in at : i >= j

\* os.path.splitext (posixpath): the extension starts at the last dot of the
\* last path component, unless only dots come before it.
splitext(s) ==
    LET sepIndex == RFind(s, "/")
        dotIndex == RFind(s, ".")
    IN  IF /\ dotIndex > sepIndex
           /\ \E k \in (sepIndex + 1)..(dotIndex - 1) : s[k] # "."
        THEN <<SubSeq(s, 1, dotIndex - 1), SubSeq(s, dotIndex, Len(s))>>
        ELSE <<s, <<>>>>

\* The slice s[:n] of Python: a negative n counts from the end.
SliceTo(s, n) ==
    IF n >= 0 THEN SubSeq(s, 1, IF n < Len(s) THEN n ELSE Len(s))
    ELSE SubSeq(s, 1, IF Len(s) + n > 0 THEN Len(s) + n ELSE 0)

unnamed_file == <<"u", "n", "n", "a", "m", "e", "d", "_", "f", "i", "l", "e">>

\* Lines 235-248: replacement, strip(' .'), and the placeholder for an empty
\* name.
Cleaned(s) ==
    LET stripped == Strip(ReplaceUnsafe(s), {" ", "."})
    IN  IF stripped = <<>> THEN unnamed_file ELSE stripped

\* Lines 250-257: the cut to the length ceiling.
Truncated(s) ==
    IF Len(s) > MaxFilenameLength
    THEN LET parts == splitext(s)
             ext == parts[2]
         IN  IF ext # <<>>
             THEN SliceTo(parts[1], MaxFilenameLength - Len(ext)) \o ext
             ELSE SliceTo(s, MaxFilenameLength)
    ELSE s

sanitize_filename(s) == Truncated(Cleaned(s))

NotReturned == [returned |-> FALSE, value |-> <<>>]

SanitizeFilename ==
    /\ ~sanitized.returned
    /\ sanitized' = [returned |-> TRUE, value |-> sanitize_filename(filename)]
    /\ UNCHANGED <<logVars, moveVars, restVars, filename>>

\* sanitize_filename applied to the name a first call returned.
SanitizeAgain ==
    /\ sanitized.returned
    /\ ~resanitized.returned
    /\ resanitized' = [returned |-> TRUE,
                       value |-> sanitize_filename(sanitized.value)]
    /\ UNCHANGED <<logVars, moveVars, sanitizeVars, resolveVars, threads,
                   procs, diaryVars>>

\* The characters names are made of: the unsafe ones, the ones strip removes,
\* other whitespace, and ordinary ones.
Alphabet ==
    {"<", ">", ":", "\"", "/", "\\", "|", "?", "*",
     " ", ".", "\t", "\n", "a", "_"}

Repeat(char, n) == [i \in 1..n |-> char]

ShortNames == UNION { [1..n -> Alphabet] : n \in 0..MaxShortLen }

\* Names around and past the ceiling: a run of one character between a head
\* and a tail.
LongNames ==
    { head \o Repeat(char, n) \o tail :
        head \in {<<>>, <<" ">>, <<"a", ".">>},
        char \in {"a", "b"},
        n \in (MaxFilenameLength - 3)..(MaxFilenameLength + MaxOver),
        tail \in {<<>>, <<" ", "b">>, <<".", "b", "c">>, <<".", " ", "b">>} }

\* The names of the documentation: "My:File<Name>.mp3" and
\* "   .hidden_file   ", and a name with a tab in front.
DocumentedNames ==
    { <<"M", "y", ":", "F", "i", "l", "e", "<", "N", "a", "m", "e", ">", ".",
        "m", "p", "3">>,
      <<" ", " ", " ", ".", "h", "i", "d", "d", "e", "n", "_", "f", "i", "l",
        "e", " ", " ", " ">>,
      <<"\t", "n", "a", "m", "e">> }

Filenames == ShortNames \cup LongNames \cup DocumentedNames

\* ------------------------------------------------------------------------
\* resolve_path (file_sys_utils.py). A path text is [absolute, parts]: a
\* leading "/" or not, and the components between the slashes.
\* ------------------------------------------------------------------------
\* Number of components of the path arguments.
MaxPathLen == 2

PurePath(absolute, parts) == [absolute |-> absolute, parts |-> parts]

\* Path(text): pathlib drops the "." components and keeps the ".." ones; the
\* empty string becomes the relative path without components (".").
PathOf(text) ==
    PurePath(text.absolute, SelectSeq(text.parts, LAMBDA c : c # "."))

\* An argument that is a str, and None for an omitted argument.
Str(absolute, parts) == [type |-> "str", absolute |-> absolute, parts |-> parts]

NoneArg == [type |-> "None", absolute |-> FALSE, parts |-> <<>>]

\* get_project_root(): two levels above common/utils.
ProjectRoot == PurePath(TRUE, <<"srv", "app">>)

\* The working directory of the process.
Cwd == PurePath(TRUE, <<"work">>)

\* Symbolic links of the filesystem: /root/link points to /data, and
\* /root/loop to itself.
Symlinks ==
    (<<"root", "link">> :> <<"data">>) @@ (<<"root", "loop">> :> <<"root", "loop">>)

\* The value of a realpath walk that ran into a symlink loop.
Loop == <<"<loop>">>

\* os.path.realpath: the components are walked from the root; ".." leaves
\* the directory reached so far, a symbolic link is replaced by its target.
RECURSIVE Walk(_, _, _)
Walk(done, rest, hops) ==
    IF rest = <<>> THEN done
    ELSE LET c == Head(rest)
             next == IF c = ".." THEN SubSeq(done, 1, Len(done) - 1)
                     ELSE Append(done, c)
         IN  IF c = "." THEN Walk(done, Tail(rest), hops)
             ELSE IF next \in DOMAIN Symlinks
             THEN IF hops = 0 THEN Loop
                  ELSE Walk(<<>>, Symlinks[next] \o Tail(rest), hops - 1)
             ELSE Walk(next, Tail(rest), hops)

\* Path.resolve(): a relative path starts at the working directory.
ResolvesToLoop(p) ==
    Walk(<<>>, (IF p.absolute THEN <<>> ELSE Cwd.parts) \o p.parts, 1) = Loop

Resolve(p) ==
    PurePath(TRUE,
             Walk(<<>>, (IF p.absolute THEN <<>> ELSE Cwd.parts) \o p.parts, 1))

\* base_dir / path_input
Join(base, p) ==
    IF p.absolute THEN p ELSE PurePath(base.absolute, base.parts \o p.parts)

\* The mutant of BaseOrDefault: the working directory is the default.
BaseOrCwd(base_dir) ==
    IF base_dir.type = "None" THEN Cwd ELSE PathOf(base_dir)

\* if base_dir is None: base_dir = get_script_directory()
BaseOrDefault(base_dir) ==
    IF base_dir.type = "None" THEN ProjectRoot ELSE PathOf(base_dir)

\* "if not path_input", evaluated after a str has been made a Path: a Path
\* object is never false, None is.
IsFalsy(path_input) == path_input.type = "None"

Resolution(result, value) == [returned |-> TRUE, result |-> result, value |-> value]

NotResolved == [returned |-> FALSE, result |-> None, value |-> PurePath(FALSE, <<>>)]

NoArgs == [path_input |-> NoneArg, base_dir |-> NoneArg]

\* resolve_path: every exception of the body is re-raised as OSError.
resolve_path(path_input, base_dir) ==
    LET base == BaseOrDefault(base_dir)
        p == PathOf(path_input)
        target == IF p.absolute THEN p ELSE Join(base, p)
    IN  IF IsFalsy(path_input) THEN Resolution("OSError", PurePath(FALSE, <<>>))
        ELSE IF ResolvesToLoop(target)
        THEN Resolution("OSError", PurePath(FALSE, <<>>))
        ELSE Resolution("ok", Resolve(target))

ResolvePath ==
    /\ ~resolved.returned
    /\ resolved' = resolve_path(pathArgs.path_input, pathArgs.base_dir)
    /\ UNCHANGED <<logVars, moveVars, sanitizeVars, resanitized, pathArgs,
                   threads, procs, diaryVars>>

\* The components path arguments are made of.
PathComponents == {"a", "b.txt", "..", ".", "link", "loop"}

PathTexts ==
    { Str(absolute, parts) :
        absolute \in BOOLEAN,
        parts \in UNION { [1..n -> PathComponents] : n \in 0..MaxPathLen } }

PathInputs == PathTexts \cup {NoneArg}

BaseDirs ==
    { NoneArg, Str(TRUE, <<"root">>), Str(FALSE, <<"base">>),
      Str(TRUE, <<"root", "..">>) }

\* resolve_path is about to be called with one of args.
InitResolve(args) ==
    /\ pathArgs \in args
    /\ resolved = NotResolved

\* ------------------------------------------------------------------------
\* The diary services (web/diary/services.py) over the table ingest_item.
\* A nullable timestamp is <<>> for NULL and <<t>> otherwise; the primary key
\* of an instance is <<id>>, and <<>> once the instance has been deleted.
\* ------------------------------------------------------------------------
\* Number of service calls in a run.
MaxDiaryCalls == 3

ItemIds == {"A", "B"}

\* DIARY_DELETION_MODE: validate() reports a value that is neither 'soft'
\* nor 'hard' and keeps it.
DeletionModes == {"soft", "hard", "purge"}

\* The deletion_mode argument of delete_item.
DeletionModeArgs == {None, "soft", "hard", "purge"}

Row(is_deleted, deletion_type, deleted_at) ==
    [is_deleted |-> is_deleted, deletion_type |-> deletion_type,
     deleted_at |-> deleted_at]

\* The table at the start: a visible entry and a soft-deleted one.
StoredRows ==
    ("A" :> Row(FALSE, "soft", <<>>)) @@ ("B" :> Row(TRUE, "soft", <<0>>))

Instance(pk, is_deleted, deletion_type, deleted_at) ==
    [loaded |-> TRUE, pk |-> pk, is_deleted |-> is_deleted,
     deletion_type |-> deletion_type, deleted_at |-> deleted_at]

NoItem == [loaded |-> FALSE, pk |-> <<>>, is_deleted |-> FALSE,
           deletion_type |-> "soft", deleted_at |-> <<>>]

\* IngestItem.objects.get(id=id): the instance of a stored row.
InstanceOf(r, id) ==
    Instance(<<id>>, r[id].is_deleted, r[id].deletion_type, r[id].deleted_at)

\* The views list the rows with is_deleted=False.
Visible(r, id) == id \in DOMAIN r /\ ~r[id].is_deleted

\* One way a database call can end: the table, the instance, and the
\* exception raised (None when it returned).
DbOutcome(r, it, raised) == [rows |-> r, item |-> it, raised |-> raised]

\* The columns an UPDATE of update_fields writes, the others as stored.
SaveFields(it, row, update_fields) ==
    Row(IF "is_deleted" \in update_fields THEN it.is_deleted ELSE row.is_deleted,
        IF "deletion_type" \in update_fields THEN it.deletion_type
        ELSE row.deletion_type,
        IF "deleted_at" \in update_fields THEN it.deleted_at ELSE row.deleted_at)

\* item.save(update_fields=...): an UPDATE of the row with the instance's
\* primary key. It raises without a primary key, when no row is affected,
\* and whenever the database refuses.
Save(r, it, update_fields) ==
    { DbOutcome(r, it, "OperationalError") }
    \cup
    (IF it.pk = <<>> THEN { DbOutcome(r, it, "ValueError") }
     ELSE IF it.pk[1] \notin DOMAIN r THEN { DbOutcome(r, it, "DatabaseError") }
     ELSE { DbOutcome([r EXCEPT ![it.pk[1]] = SaveFields(it, @, update_fields)],
                      it, None) })

\* item.delete(): the row is removed and the instance loses its primary key.
Delete(r, it) ==
    { DbOutcome(r, it, "OperationalError") }
    \cup
    (IF it.pk = <<>> THEN { DbOutcome(r, it, "ValueError") }
     ELSE { DbOutcome([i \in DOMAIN r \ {it.pk[1]} |-> r[i]],
                      [it EXCEPT !.pk = <<>>], None) })

\* mode = deletion_mode or config.deletion_mode
EffectiveMode(deletion_mode) ==
    IF deletion_mode = None THEN diaryConfig.deletion_mode ELSE deletion_mode

\* delete_item: the outcomes of a call on instance it.
delete_item(r, it, deletion_mode) ==
    LET mode == EffectiveMode(deletion_mode)
    IN  IF mode \notin {"soft", "hard"}
        THEN { DbOutcome(r, it, "ValueError") }
        ELSE IF mode = "soft"
        THEN Save(r, [it EXCEPT !.is_deleted = TRUE, !.deletion_type = "soft",
                                !.deleted_at = <<now>>],
                  {"is_deleted", "deletion_type", "deleted_at"})
        ELSE UNION { IF saved.raised # None THEN { saved }
                     ELSE Delete(saved.rows, saved.item) :
                       saved \in Save(r, [it EXCEPT !.deletion_type = "hard",
                                                    !.deleted_at = <<now>>],
                                      {"deletion_type", "deleted_at"}) }

\* The mutant of RestoreUpdateFields: the timestamp is not written back.
RestoreOnlyFlag == {"is_deleted"}

\* item.save(update_fields=['is_deleted', 'deleted_at'])
RestoreUpdateFields == {"is_deleted", "deleted_at"}

\* restore_item: the outcomes of a call on instance it.
restore_item(r, it) ==
    IF it.deletion_type = "hard" THEN { DbOutcome(r, it, "ValueError") }
    ELSE IF ~it.is_deleted THEN { DbOutcome(r, it, None) }
    ELSE Save(r, [it EXCEPT !.is_deleted = FALSE, !.deleted_at = <<>>],
              RestoreUpdateFields)

\* The record of a call: the operation, its arguments, the deletion mode
\* in force, the exception raised or "ok", the table and the instance before
\* the call, and the operation, mode and result of the call before it.
DiaryCall(op, id, mode, result, n, r, it, prev) ==
    [op |-> op, id |-> id, mode |-> mode, result |-> result, n |-> n,
     rows |-> r, item |-> it, prev |-> prev]

NoDiaryCall ==
    DiaryCall("init", None, None, "ok", 0, <<>>, NoItem, <<"init", None, "ok">>)

Ends(op, id, mode, out) ==
    /\ rows' = out.rows
    /\ item' = out.item
    /\ lastDiary' = DiaryCall(op, id, mode,
                              IF out.raised = None THEN "ok" ELSE out.raised,
                              lastDiary.n + 1, rows, item,
                              <<lastDiary.op, lastDiary.mode, lastDiary.result>>)

\* item = IngestItem.objects.get(id=id)
GetItem ==
    /\ lastDiary.n < MaxDiaryCalls
    /\ \E id \in DOMAIN rows :
        Ends("get", id, None, DbOutcome(rows, InstanceOf(rows, id), None))

DeleteItem ==
    /\ lastDiary.n < MaxDiaryCalls
    /\ item.loaded
    /\ \E deletion_mode \in DeletionModeArgs :
        \E out \in delete_item(rows, item, deletion_mode) :
            Ends("delete_item", None, EffectiveMode(deletion_mode), out)

RestoreItem ==
    /\ lastDiary.n < MaxDiaryCalls
    /\ item.loaded
    /\ \E out \in restore_item(rows, item) :
        Ends("restore_item", None, None, out)

\* delete_item_view: only an entry that is not deleted is looked up and
\* handed to delete_item; a missing one is answered with 404, an exception
\* with 500. The instance is local to the request.
DeleteItemView ==
    /\ lastDiary.n < MaxDiaryCalls
    /\ \E id \in ItemIds :
        IF ~Visible(rows, id)
        THEN Ends("delete_item_view", id, None, DbOutcome(rows, item, "404"))
        ELSE \E out \in delete_item(rows, InstanceOf(rows, id), None) :
                Ends("delete_item_view", id, EffectiveMode(None),
                     [out EXCEPT !.item = item,
                                 !.raised = IF @ = None THEN None ELSE "500"])

DiaryStep ==
    /\ \/ GetItem
       \/ DeleteItem
       \/ RestoreItem
       \/ DeleteItemView
    /\ UNCHANGED <<logVars, moveVars, sanitizeVars, resanitized, resolveVars,
                   threads, procs, diaryConfig>>

\* ------------------------------------------------------------------------
\* The process
\* ------------------------------------------------------------------------
\* The logging module right after import.
InitLogging ==
    /\ LOGGING_CONFIG \in Configs
    /\ loggerDict = EmptyDict
    /\ warned = {}
    /\ provisioned = {}
    /\ stdout = <<>>
    /\ dirs = {}
    /\ files = EmptyDict
    /\ rotations = EmptyDict
    /\ nextMsg = 1
    /\ lastCall = CallRec("init", None, None, None, None, None, 0, 0,
                          "ok", 0, FALSE)

\* An empty diary table.
NoRows == <<>>

\* The diary services are not running: no table, no instance, no call.
InitNoDiary ==
    /\ rows = NoRows
    /\ item = NoItem
    /\ lastDiary = NoDiaryCall
    /\ diaryConfig = [deletion_mode |-> "soft"]

\* No thread is inside get_logger, no process inside move_uuid_folder.
NoThreads == [t \in {} |-> None]

NoProcs == [p \in {} |-> None]

\* No relocation has been called yet.
InitDisk(disks) ==
    /\ disk \in disks
    /\ now = 0
    /\ lastMove = NoMove

\* sanitize_filename is about to be called with one of names.
InitFilename(names) ==
    /\ filename \in names
    /\ sanitized = NotReturned

\* Nothing else is running: no resolve_path call, no thread or process
\* inside a call, an empty diary table.
InitRest ==
    /\ resanitized = NotReturned
    /\ InitResolve({NoArgs})
    /\ threads = NoThreads
    /\ procs = NoProcs
    /\ InitNoDiary

Init ==
    /\ InitLogging
    /\ InitDisk({FreshDisk})
    /\ InitFilename({<<>>})
    /\ InitRest

Next ==
    \/ GetLogger
    \/ SetConsoleLevel
    \/ Log

\* The registry under every table and every argument.
Spec == Init /\ [][Next]_vars

\* The process as the repository runs it: the shipped table, get_logger called
\* with a name only (services.py, views.py, file_move_utils.py), and records
\* logged until the files roll over.
GetLoggerByName ==
    /\ UNCHANGED <<moveVars, sanitizeVars, restVars>>
    /\ \E logger_name \in Names : get_logger(logger_name, None, None, None)

LogRotating ==
    /\ UNCHANGED <<moveVars, sanitizeVars, restVars>>
    /\ \E logger_name \in Names, level \in Severities, len \in MsgLens :
        log(logger_name, level, len, MaxRotationMsgs)

InitShipped == Init /\ LOGGING_CONFIG = ShippedConfig

NextRotation ==
    \/ GetLoggerByName
    \/ LogRotating

SpecRotation == InitShipped /\ [][NextRotation]_vars

\* The relocation of folders from the download area to the processed
\* directory, with the clock running: the logging registry stays as the
\* module import left it.
NextMove ==
    \/ MoveUuidFolder
    \/ MoveUuidFolderWithHierarchy
    \/ Tick

InitMove ==
    /\ InitLogging
    /\ LOGGING_CONFIG = ShippedConfig
    /\ InitDisk(StartDisks)
    /\ InitFilename({<<>>})
    /\ InitRest

SpecMove == InitMove /\ [][NextMove]_vars

\* The hierarchy-preserving relocation handed the download root.
NextMoveRoot ==
    \/ MoveFromDownloadRoot
    \/ Tick

InitMoveRoot ==
    /\ InitLogging
    /\ LOGGING_CONFIG = ShippedConfig
    /\ InitDisk({SmallDisk, SmallUsedDisk})
    /\ InitFilename({<<>>})
    /\ InitRest

SpecMoveRoot == InitMoveRoot /\ [][NextMoveRoot]_vars

\* Two processes relocate same-named folders into one processed root.
InitProcs ==
    /\ InitLogging
    /\ LOGGING_CONFIG = ShippedConfig
    /\ InitDisk(StartDisks)
    /\ InitFilename({<<>>})
    /\ resanitized = NotReturned
    /\ InitResolve({NoArgs})
    /\ threads = NoThreads
    /\ procs \in ProcStarts(disk)
    /\ InitNoDiary

NextProcs ==
    \/ \E p \in ProcIds : ProcStep(p)
    \/ Tick

SpecProcs == InitProcs /\ [][NextProcs]_vars

\* The diary services of one web process.
InitDiary ==
    /\ InitLogging
    /\ LOGGING_CONFIG = ShippedConfig
    /\ InitDisk({FreshDisk})
    /\ InitFilename({<<>>})
    /\ resanitized = NotReturned
    /\ InitResolve({NoArgs})
    /\ threads = NoThreads
    /\ procs = NoProcs
    /\ rows = StoredRows
    /\ item = NoItem
    /\ lastDiary = NoDiaryCall
    /\ diaryConfig \in [deletion_mode : DeletionModes]

NextDiary ==
    \/ DiaryStep
    \/ Tick

SpecDiary == InitDiary /\ [][NextDiary]_vars

\* sanitize_filename applied to one name.
InitSanitize ==
    /\ InitLogging
    /\ LOGGING_CONFIG = ShippedConfig
    /\ InitDisk({FreshDisk})
    /\ InitFilename(Filenames)
    /\ InitRest

NextSanitize == SanitizeFilename

SpecSanitize == InitSanitize /\ [][NextSanitize]_vars

\* sanitize_filename applied to one name, and again to what it returned.
NextSanitizeTwice ==
    \/ SanitizeFilename
    \/ SanitizeAgain

SpecSanitizeTwice == InitSanitize /\ [][NextSanitizeTwice]_vars

\* resolve_path applied to one pair of arguments.
InitResolvePath ==
    /\ InitLogging
    /\ LOGGING_CONFIG = ShippedConfig
    /\ InitDisk({FreshDisk})
    /\ InitFilename({<<>>})
    /\ resanitized = NotReturned
    /\ InitResolve([path_input : PathInputs, base_dir : BaseDirs])
    /\ threads = NoThreads
    /\ procs = NoProcs
    /\ InitNoDiary

NextResolve == ResolvePath

\* Two threads of one process call get_logger for the same name.
InitThreads ==
    /\ InitLogging
    /\ InitDisk({FreshDisk})
    /\ InitFilename({<<>>})
    /\ resanitized = NotReturned
    /\ InitResolve({NoArgs})
    /\ threads \in ThreadStarts
    /\ procs = NoProcs
    /\ InitNoDiary

NextThreads == \E t \in ThreadIds : ThreadStep(t)

SpecThreads == InitThreads /\ [][NextThreads]_vars

SpecResolve == InitResolvePath /\ [][NextResolve]_vars

\* ------------------------------------------------------------------------
\* Vocabulary of the properties
\* ------------------------------------------------------------------------
Handlers(n) == IF n \in DOMAIN loggerDict THEN loggerDict[n].handlers ELSE <<>>

SinksOfKind(n, kind) ==
    {i \in DOMAIN Handlers(n) : Handlers(n)[i].kind = kind}

HasSink(n, kind) == SinksOfKind(n, kind) # {}

\* The sink of that kind, when the name has exactly one.
Sink(n, kind) == Handlers(n)[CHOOSE i \in SinksOfKind(n, kind) : TRUE]

\* Lines of stdout that carry record id.
ConsoleCopies(id) ==
    {i \in DOMAIN stdout : stdout[i].kind = "record" /\ stdout[i].id = id}

\* Places in the files at path (active file and backups) that hold record id.
FileCopies(path, id) ==
    {kj \in {<<k, j>> : k \in DOMAIN files, j \in 1..(MaxMsgs + MaxRotationMsgs)} :
        /\ kj[1][1] = path[1] /\ kj[1][2] = path[2]
        /\ kj[2] \in DOMAIN files[kj[1]]
        /\ files[kj[1]][kj[2]].id = id}

LastIs(op) == lastCall.op = op

\* C1: after any sequence of get_logger calls, a name has at most one console
\* sink and at most one rotating file sink, a successful call returns the
\* registered handle of the name, the handle of a name never changes, and no
\* record is written more than once to stdout or to the files of a sink.
C1_AtMostOneSinkPerKind ==
    /\ \A n \in Names :
          /\ Cardinality(SinksOfKind(n, "console")) <= 1
          /\ Cardinality(SinksOfKind(n, "file")) <= 1
    /\ (LastIs("get_logger") /\ lastCall.result = "ok")
          => lastCall.ret = loggerDict[lastCall.name].id
    /\ \A id \in 1..(nextMsg - 1) :
          /\ Cardinality(ConsoleCopies(id)) <= 1
          /\ \A n \in Names : \A i \in SinksOfKind(n, "file") :
                Cardinality(FileCopies(Handlers(n)[i].path, id)) <= 1

C1_SameHandle ==
    \A n \in DOMAIN loggerDict :
        n \in DOMAIN loggerDict' /\ loggerDict'[n].id = loggerDict[n].id

C1_Idempotent == []C1_AtMostOneSinkPerKind /\ [][C1_SameHandle]_vars

\* A second get_logger call for a name with both sinks, after a record went
\* to both.
C1_Witness ==
    /\ LastIs("get_logger") /\ lastCall.result = "ok" /\ ~lastCall.configured
    /\ HasSink(lastCall.name, "console") /\ HasSink(lastCall.name, "file")
    /\ ConsoleCopies(1) # {}
    /\ FileCopies(Sink(lastCall.name, "file").path, 1) # {}

\* C2: a get_logger call for a name that already has sinks leaves the sinks of
\* that name (their thresholds, log directory and log filename) as they were,
\* whatever the override arguments.
C2_FirstCallWins ==
    [][(/\ lastCall'.op = "get_logger"
        /\ Handlers(lastCall'.name) # <<>>)
       => /\ loggerDict'[lastCall'.name].handlers = Handlers(lastCall'.name)
          /\ lastCall'.result = "ok"]_vars

\* The call gave a directory and both levels, and each differs from what the
\* existing sinks have.
C2_Witness ==
    /\ LastIs("get_logger") /\ ~lastCall.configured
    /\ lastCall.log_dir = "alt_logs" /\ lastCall.console_level = "info"
    /\ lastCall.file_level = "ERROR"
    /\ HasSink(lastCall.name, "console") /\ HasSink(lastCall.name, "file")
    /\ Sink(lastCall.name, "console").level # LevelValue["INFO"]
    /\ Sink(lastCall.name, "file").level # LevelValue["ERROR"]
    /\ Sink(lastCall.name, "file").path[1] # "alt_logs"

\* C3: a record of severity s logged through a provisioned logger is on
\* stdout iff s >= the console sink's threshold and in the sink's file iff
\* s >= the file sink's threshold, each decided on its own.
C3_SinksFilterIndependently ==
    LastIs("log") =>
        \A i \in DOMAIN Handlers(lastCall.name) :
            LET h == Handlers(lastCall.name)[i]
                passes == LevelValue[lastCall.level] >= h.level
            IN  /\ h.kind = "console" =>
                      ((ConsoleCopies(lastCall.id) # {}) <=> passes)
                /\ h.kind = "file" =>
                      ((FileCopies(h.path, lastCall.id) # {}) <=> passes)

\* Console at INFO, file at DEBUG, a DEBUG record: in the file, not on stdout.
C3_Witness ==
    /\ LastIs("log") /\ lastCall.level = "DEBUG"
    /\ HasSink(lastCall.name, "console") /\ HasSink(lastCall.name, "file")
    /\ Sink(lastCall.name, "console").level = LevelValue["INFO"]
    /\ Sink(lastCall.name, "file").level = LevelValue["DEBUG"]
    /\ ConsoleCopies(lastCall.id) = {}
    /\ FileCopies(Sink(lastCall.name, "file").path, lastCall.id) # {}

\* C4: set_console_level with a valid level sets the threshold of the console
\* sinks of the handle and nothing else: the file sink, the number and order
\* of sinks, the logger's own settings, the other loggers and the outputs are
\* as before; without a console sink nothing changes.
C4_OnlyConsoleThreshold ==
    [][(lastCall'.op = "set_console_level" /\ lastCall'.result = "ok")
       => LET n == lastCall'.name
              old == loggerDict[n]
              new == loggerDict'[n]
          IN  /\ DOMAIN new.handlers = DOMAIN old.handlers
              /\ \A i \in DOMAIN old.handlers :
                    IF old.handlers[i].kind = "console"
                    THEN new.handlers[i] =
                            [old.handlers[i] EXCEPT
                                !.level = LevelValue[lastCall'.level]]
                    ELSE new.handlers[i] = old.handlers[i]
              /\ new.id = old.id /\ new.level = old.level
              /\ new.propagate = old.propagate
              /\ \A m \in DOMAIN loggerDict \ {n} :
                    loggerDict'[m] = loggerDict[m]
              /\ DOMAIN loggerDict' = DOMAIN loggerDict
              /\ UNCHANGED <<LOGGING_CONFIG, warned, stdout, dirs, files,
                             rotations>>
              /\ ~HasSink(n, "console") => loggerDict' = loggerDict]_vars

\* The console threshold was moved to WARNING and the file sink kept another
\* threshold.
C4_Witness ==
    /\ LastIs("set_console_level") /\ lastCall.result = "ok"
    /\ HasSink(lastCall.name, "console") /\ HasSink(lastCall.name, "file")
    /\ Sink(lastCall.name, "console").level = LevelValue["WARNING"]
    /\ Sink(lastCall.name, "file").level # LevelValue["WARNING"]

\* C5: in strict mode get_logger for a name without an entry fails with the
\* configuration error (ValueError) and changes nothing: no logger object, no
\* sink, no directory, no file, no warned-name marker, no output.
C5_StrictRejectsUnknown ==
    [][(/\ lastCall'.op = "get_logger"
        /\ LOGGING_CONFIG.strict_config
        /\ ~IsKnown(lastCall'.name))
       => /\ lastCall'.result = "ValueError"
          /\ UNCHANGED <<loggerDict, warned, provisioned, stdout, dirs,
                         files, rotations>>]_vars

\* The unknown name was rejected after the known name had been provisioned.
C5_Witness ==
    /\ LastIs("get_logger") /\ lastCall.result = "ValueError"
    /\ LOGGING_CONFIG.strict_config /\ ~IsKnown(lastCall.name)
    /\ lastCall.name \notin DOMAIN loggerDict
    /\ "diary" \in provisioned /\ warned = {}

WarningLines(n) ==
    {i \in DOMAIN stdout : stdout[i].kind = "warning" /\ stdout[i].name = n}

EntryOf(n) == Get(LOGGING_CONFIG.loggers, n, EmptyDict)

\* The value of a setting by precedence: the call's argument, else the
\* entry of the name, else the global defaults, else the built-in value.
Resolved(n, key, override, builtin) ==
    IF override # None THEN override
    ELSE IF key \in DOMAIN EntryOf(n) THEN EntryOf(n)[key]
    ELSE IF key \in DOMAIN LOGGING_CONFIG.defaults
         THEN LOGGING_CONFIG.defaults[key]
    ELSE builtin

GivenLevelIsValid(level) == level = None \/ HasLevel(level)

C7_ResolutionOrder ==
    (LastIs("get_logger") /\ lastCall.configured /\ lastCall.result = "ok") =>
        LET n == lastCall.name
        IN  /\ HasSink(n, "console") =>
                  Sink(n, "console").level =
                      LevelValue[Upper(Resolved(n, "console_level",
                                                lastCall.console_level, None))]
            /\ HasSink(n, "file") =>
                  /\ Sink(n, "file").level =
                        LevelValue[Upper(Resolved(n, "file_level",
                                                  lastCall.file_level, None))]
                  /\ Sink(n, "file").path[1] =
                        Resolved(n, "log_dir", lastCall.log_dir, ScriptLogDir)
                  /\ Sink(n, "file").path[2] =
                        IF "log_filename" \in DOMAIN EntryOf(n)
                        THEN EntryOf(n).log_filename
                        ELSE <<n, ".log">>

\* The console level comes from the argument although the entry sets one; the
\* file level, the directory and the filename come from the entry although
\* the defaults differ.
C7_Witness ==
    /\ LastIs("get_logger") /\ lastCall.configured /\ lastCall.result = "ok"
    /\ lastCall.name = "diary"
    /\ lastCall.console_level = "info" /\ lastCall.file_level = None
    /\ lastCall.log_dir = None
    /\ "console_level" \in DOMAIN EntryOf("diary")
    /\ EntryOf("diary").console_level = "WARNING"
    /\ Sink("diary", "console").level = LevelValue["INFO"]
    /\ Sink("diary", "file").level = LevelValue["INFO"]
    /\ LOGGING_CONFIG.defaults.file_level = "DEBUG"
    /\ Sink("diary", "file").path = <<"diary_logs", <<"journal", ".log">> >>

OutputEnabled(n, key) == Resolved(n, key, None, TRUE)

\* C8: a name whose configuration block ran to its end has a console sink iff
\* its resolved config enables console output, and a rotating file sink iff
\* its resolved config enables file output.
C8_SinksMatchEnabledOutputs ==
    \A n \in provisioned :
        /\ HasSink(n, "console") <=> OutputEnabled(n, "console_output")
        /\ HasSink(n, "file") <=> OutputEnabled(n, "file_output")

\* A provisioned name with file output switched off: a console sink only,
\* still so after a record was logged.
C8_Witness ==
    /\ LastIs("log") /\ lastCall.name \in provisioned
    /\ OutputEnabled(lastCall.name, "console_output")
    /\ ~OutputEnabled(lastCall.name, "file_output")
    /\ HasSink(lastCall.name, "console") /\ ~HasSink(lastCall.name, "file")

FirstProvisioningDone ==
    LastIs("get_logger") /\ lastCall.configured /\ lastCall.result = "ok"

\* C9 as stated: first provisioning creates zero or two handlers, never one.
C9_ZeroOrTwoHandlers ==
    FirstProvisioningDone => Len(Handlers(lastCall.name)) \in {0, 2}

\* C9, amended: first provisioning creates one handler per enabled output:
\* none, one (only console or only file output enabled) or two.
C9_OneHandlerPerEnabledOutput ==
    FirstProvisioningDone =>
        Len(Handlers(lastCall.name)) =
            (IF OutputEnabled(lastCall.name, "console_output") THEN 1 ELSE 0)
          + (IF OutputEnabled(lastCall.name, "file_output") THEN 1 ELSE 0)

\* Only file output is enabled and exactly one handler was created.
C9_Witness ==
    /\ FirstProvisioningDone
    /\ ~OutputEnabled(lastCall.name, "console_output")
    /\ OutputEnabled(lastCall.name, "file_output")
    /\ Len(Handlers(lastCall.name)) = 1

\* Indices i >= 1 for which the backup <log file>.i exists.
BackupIndices(path) ==
    {k[3] : k \in {f \in DOMAIN files : f[1] = path[1] /\ f[2] = path[2]}} \ {0}

\* Records held by the log file at path or by one of its backups.
StoredRecords(path) ==
    UNION {{files[k][j] : j \in DOMAIN files[k]} :
              k \in {f \in DOMAIN files : f[1] = path[1] /\ f[2] = path[2]}}

Min(a, b) == IF a <= b THEN a ELSE b

ConfiguredMaxBytes == LOGGING_CONFIG.defaults.rotation.max_bytes

ConfiguredBackupCount == LOGGING_CONFIG.defaults.rotation.backup_count

\* In every state: the backups of a file sink are exactly <file>.1 .. <file>.k
\* with k = min(rotations done, backupCount); once backupCount + 1 rotations
\* are done, nothing written before the first rotation is left in any file.
C10_BackupsBounded ==
    \A n \in Names : \A i \in SinksOfKind(n, "file") :
        LET path == Handlers(n)[i].path
            r == Rotations(rotations, path)
        IN  /\ BackupIndices(path) = 1..Min(r, ConfiguredBackupCount)
            /\ r >= ConfiguredBackupCount + 1 =>
                  \A rec \in StoredRecords(path) : rec.gen # 0

\* In every logging step: a file sink rotates at most once, and it rotates
\* once when the record it accepts would push the active file past maxBytes;
\* no other file rotates.
C10_OneRotationPerOverflow ==
    lastCall'.op = "log" =>
        /\ \A i \in SinksOfKind(lastCall'.name, "file") :
              LET h == Handlers(lastCall'.name)[i]
                  before == Rotations(rotations, h.path)
                  after == Rotations(rotations', h.path)
                  accepted == LevelValue[lastCall'.level] >= h.level
                  overflow == Size(files[FileKey(h.path, 0)]) + lastCall'.len
                                  > ConfiguredMaxBytes
              IN  /\ after \in {before, before + 1}
                  /\ (accepted /\ overflow) => after = before + 1
                  /\ ~accepted => after = before
        /\ \A n \in Names \ {lastCall'.name} :
              \A i \in SinksOfKind(n, "file") :
                  Rotations(rotations', Handlers(n)[i].path) =
                      Rotations(rotations, Handlers(n)[i].path)

\* C10: rotation of the file sink with the configured maxBytes and
\* backupCount: one rotation per overflowing write, backups numbered 1..k with
\* k <= backupCount, and after backupCount + 1 rotations exactly backupCount
\* backups and none of the oldest file's records.
C10_Rotation == []C10_BackupsBounded /\ [][C10_OneRotationPerOverflow]_vars

\* backupCount + 1 rotations of the diary log are done: backupCount backups
\* exist and the first record, which went into the first file, is in none of
\* the files.
C10_Witness ==
    /\ LastIs("log") /\ HasSink("diary", "file")
    /\ Rotations(rotations, Sink("diary", "file").path) =
          ConfiguredBackupCount + 1
    /\ BackupIndices(Sink("diary", "file").path) = 1..ConfiguredBackupCount
    /\ FileCopies(Sink("diary", "file").path, 1) = {}
    /\ \E rec \in StoredRecords(Sink("diary", "file").path) : rec.id = 2

\* ------------------------------------------------------------------------
\* Vocabulary of the relocation properties
\* ------------------------------------------------------------------------
\* This step is a call of the relocation function op.
Relocates(op) == lastMove'.n # lastMove.n /\ lastMove'.op = op

\* The timestamp suffix the clock gives at this moment: "-YYYYMMDD-HHMMSS"
\* names the running second.
SecondNow == now \div TicksPerSecond

Suffixed(comp) == <<comp[1], comp[2] \o <<SecondNow>>>>

\* The state follows a call of op that ended with result.
MoveEnded(op, result) == lastMove.op = op /\ lastMove.result = result

\* ------------------------------------------------------------------------
\* C11: move_uuid_folder called with a source that does not exist, or that
\* exists but is not a directory, raises the invalid-source error (a
\* ValueError naming the source) and leaves the filesystem as it was: the
\* processed root is not created and nothing is moved.
\* ------------------------------------------------------------------------
C11_InvalidSourceChangesNothing ==
    [][ (/\ Relocates("move_uuid_folder")
         /\ \/ lastMove'.source_folder \notin DOMAIN disk
            \/ disk[lastMove'.source_folder].kind # "dir")
        => /\ lastMove'.result = InvalidSourceError
           /\ lastMove'.msg \in {"Source folder does not exist",
                                 "Source path is not a directory"}
           /\ lastMove'.ret = NoPath
           /\ disk' = disk ]_vars

\* A file was given as source while the processed root did not exist, and
\* the root still does not exist.
C11_Witness ==
    /\ MoveEnded("move_uuid_folder", InvalidSourceError)
    /\ lastMove.msg = "Source path is not a directory"
    /\ lastMove.source_folder \in DOMAIN disk
    /\ lastMove.processed_root \notin DOMAIN disk

\* ------------------------------------------------------------------------
\* C12: when processed_root/<source name> exists at the time
\* move_uuid_folder checks it, the path returned is
\* processed_root/"<name>-<timestamp>" with the timestamp of the current
\* second, and the folder processed_root/<name> that was there, with its
\* contents, is unchanged after the call (whether the call returns or
\* raises).
\* ------------------------------------------------------------------------
C12_CollisionKeepsExistingFolder ==
    [][ LET root == lastMove'.processed_root
            taken == Append(root, PathName(lastMove'.source_folder))
        IN  (/\ Relocates("move_uuid_folder")
             /\ PathIsDir(disk, lastMove'.source_folder)
             /\ taken \in DOMAIN disk)
            => /\ lastMove'.result = "ok" =>
                    lastMove'.ret =
                        Append(root,
                               Suffixed(PathName(lastMove'.source_folder)))
               /\ Subtree(disk', taken) = Subtree(disk, taken) ]_vars

\* A call returned a timestamped path next to the folder that was there.
C12_Witness ==
    /\ MoveEnded("move_uuid_folder", "ok")
    /\ PathName(lastMove.ret)[2] # <<>>
    /\ Append(lastMove.processed_root, PathName(lastMove.source_folder))
           \in DOMAIN disk
    /\ Path3("processed", "u", "k") \in DOMAIN disk

\* ------------------------------------------------------------------------
\* C13: whenever move_uuid_folder or move_uuid_folder_with_hierarchy
\* returns, the subtree that was at source_folder is rooted at exactly the
\* returned path and source_folder no longer exists, also when the
\* timestamped destination exists already because a folder of the same name
\* was moved within the same second.
\* ------------------------------------------------------------------------
C13_ReturnedPathIsWhereTheFolderIs ==
    [][ (/\ lastMove'.n # lastMove.n
         /\ lastMove'.result = "ok")
        => /\ Subtree(disk', lastMove'.ret)
                = Subtree(disk, lastMove'.source_folder)
           /\ lastMove'.source_folder \notin DOMAIN disk' ]_vars

\* ------------------------------------------------------------------------
\* C14: when shutil.move fails inside move_uuid_folder, the call raises an
\* OSError that carries the cause, and the source folder with all of its
\* contents is still at source_folder; the source is never gone while the
\* destination does not hold the complete subtree.
\* ------------------------------------------------------------------------
C14_SourceGoneOnlyWhenMoved ==
    [][ (/\ Relocates("move_uuid_folder")
         /\ lastMove'.source_folder \in DOMAIN disk
         /\ lastMove'.source_folder \notin DOMAIN disk')
        => \E p \in DOMAIN disk' :
               Subtree(disk', p) = Subtree(disk, lastMove'.source_folder) ]_vars

C14_FailedMoveRaisesAndKeepsSource ==
    [][ (/\ Relocates("move_uuid_folder")
         /\ lastMove'.cause # None)
        => /\ lastMove'.result = "OSError"
           /\ Subtree(disk', lastMove'.source_folder)
                = Subtree(disk, lastMove'.source_folder) ]_vars

C14_FailedMoveLeavesSource ==
    /\ C14_FailedMoveRaisesAndKeepsSource
    /\ C14_SourceGoneOnlyWhenMoved

\* ------------------------------------------------------------------------
\* C15: move_uuid_folder_with_hierarchy called with an existing directory
\* that is not under download_root raises before any filesystem change: the
\* processed root and the intermediate directories are not created and the
\* source is not moved.
\* ------------------------------------------------------------------------
C15_OutsideSourceChangesNothing ==
    [][ (/\ Relocates("move_uuid_folder_with_hierarchy")
         /\ PathIsDir(disk, lastMove'.source_folder)
         /\ ~IsPrefix(lastMove'.download_root, lastMove'.source_folder))
        => /\ lastMove'.result # "ok"
           /\ lastMove'.msg = "Source folder is not within download root"
           /\ lastMove'.ret = NoPath
           /\ disk' = disk ]_vars

\* A folder outside the download root was refused while the processed root
\* did not exist, and both are as they were.
C15_Witness ==
    /\ lastMove.op = "move_uuid_folder_with_hierarchy"
    /\ lastMove.msg = "Source folder is not within download root"
    /\ PathIsDir(disk, lastMove.source_folder)
    /\ lastMove.processed_root \notin DOMAIN disk

\* ------------------------------------------------------------------------
\* C16: the error move_uuid_folder_with_hierarchy raises for a source outside
\* download_root is of a kind that differs from the kind raised for a source
\* that is missing or not a directory.
\* ------------------------------------------------------------------------
C16_HierarchyErrorIsItsOwnKind ==
    (/\ lastMove.op = "move_uuid_folder_with_hierarchy"
     /\ lastMove.msg = "Source folder is not within download root")
    => lastMove.result # InvalidSourceError

\* ------------------------------------------------------------------------
\* C17: for a source under download_root, move_uuid_folder_with_hierarchy
\* returns processed_root joined with the source's path relative to
\* download_root when that path does not exist, and otherwise that path with
\* "-<timestamp>" appended to its last component only; the directories
\* above the destination exist when the move is issued.
\* ------------------------------------------------------------------------
C17_HierarchyDestination ==
    [][ LET src == lastMove'.source_folder
            kept == SubSeq(src, Len(lastMove'.download_root) + 1, Len(src))
            joined == lastMove'.processed_root \o kept
            ret == lastMove'.ret
        IN  (/\ Relocates("move_uuid_folder_with_hierarchy")
             /\ lastMove'.result = "ok")
            => /\ IsPrefix(lastMove'.download_root, src)
               /\ IF joined \in DOMAIN lastMove'.at_move
                  THEN /\ Len(ret) = Len(joined)
                       /\ PathParent(ret) = PathParent(joined)
                       /\ PathName(ret) = Suffixed(PathName(joined))
                  ELSE ret = joined
               /\ \A q \in Prefixes(PathParent(ret)) :
                      PathIsDir(lastMove'.at_move, q) ]_vars

\* A folder two levels below the download root was moved to the same place
\* below the processed root, whose intermediate directory the call created.
C17_Witness ==
    /\ MoveEnded("move_uuid_folder_with_hierarchy", "ok")
    /\ lastMove.source_folder = Path3("downloads", "g", "u")
    /\ lastMove.ret = Path3("processed", "g", "u")
    /\ Path3("processed", "g", "u") \o Path1("f") \in DOMAIN disk

\* The same folder name was taken below the processed root, and the call
\* returned the timestamped name in the same intermediate directory.
C17_WitnessCollision ==
    /\ MoveEnded("move_uuid_folder_with_hierarchy", "ok")
    /\ Len(lastMove.ret) = 3
    /\ PathName(lastMove.ret)[2] # <<>>

\* ------------------------------------------------------------------------
\* Vocabulary of the sanitize_filename properties
\* ------------------------------------------------------------------------
Result == sanitized.value

EndsWith(s, tail) ==
    /\ Len(tail) <= Len(s)
    /\ SubSeq(s, Len(s) - Len(tail) + 1, Len(s)) = tail

\* The extension of the name before it is cut to the ceiling.
ExtensionOf(s) == splitext(Cleaned(s))[2]

Whitespace == {" ", "\t", "\n"}

\* ------------------------------------------------------------------------
\* C18: for every string, sanitize_filename returns a name of at most 255
\* characters, and when the sanitized name has an extension the returned
\* name ends with that extension.
\* ------------------------------------------------------------------------
C18_LengthCeilingKeepsExtension ==
    sanitized.returned
    => /\ Len(Result) <= 255
       /\ ExtensionOf(filename) # <<>> =>
              EndsWith(Result, ExtensionOf(filename))

\* ------------------------------------------------------------------------
\* C19: for every string, the result of sanitize_filename is not empty and
\* contains none of < > : " / \ | ? * : every occurrence is replaced by "_"
\* and an empty result by "unnamed_file"; "My:File<Name>.mp3" gives
\* "My_File_Name_.mp3" and "" gives "unnamed_file".
\* ------------------------------------------------------------------------
C19_NoUnsafeCharacterNotEmpty ==
    sanitized.returned
    => /\ Result # <<>>
       /\ \A i \in 1..Len(Result) :
              Result[i] \notin {"<", ">", ":", "\"", "/", "\\", "|", "?", "*"}
       /\ (/\ filename # <<>>
           /\ Len(filename) <= 255
           /\ filename[1] \notin {" ", "."}
           /\ filename[Len(filename)] \notin {" ", "."})
          => /\ Len(Result) = Len(filename)
             /\ \A i \in 1..Len(filename) :
                  Result[i] =
                    IF filename[i] \in
                         {"<", ">", ":", "\"", "/", "\\", "|", "?", "*"}
                    THEN "_" ELSE filename[i]
       /\ filename = <<>> => Result = unnamed_file
       /\ filename = <<"M", "y", ":", "F", "i", "l", "e", "<", "N", "a", "m",
                       "e", ">", ".", "m", "p", "3">>
          => Result = <<"M", "y", "_", "F", "i", "l", "e", "_", "N", "a",
                        "m", "e", "_", ".", "m", "p", "3">>

\* The name of the documentation was sanitized.
C19_Witness ==
    /\ sanitized.returned
    /\ Len(filename) = 17
    /\ filename[3] = ":"
    /\ Result[3] = "_"

\* A name made of unsafe characters only.
C19_WitnessAsterisk ==
    /\ sanitized.returned
    /\ filename = <<"*", "?">>
    /\ Result = <<"_", "_">>

\* ------------------------------------------------------------------------
\* C20: for every string, the result of sanitize_filename neither begins nor
\* ends with a whitespace character (space, tab, newline) or a dot.
\* ------------------------------------------------------------------------
C20_NoWhitespaceOrDotAtTheEnds ==
    sanitized.returned
    => /\ Result # <<>>
       /\ Result[1] \notin Whitespace \cup {"."}
       /\ Result[Len(Result)] \notin Whitespace \cup {"."}

\* ------------------------------------------------------------------------
\* Properties of resolve_path
\* ------------------------------------------------------------------------
Returned(result) == resolved.returned /\ resolved.result = result

\* The argument as the caller wrote it.
InputIs(absolute, parts) == pathArgs.path_input = Str(absolute, parts)

BaseIs(base) == pathArgs.base_dir = base

\* C21: for an absolute input resolve_path returns that path, canonicalized,
\* whatever base is given; for a relative input it returns the canonicalized
\* join of the base and the input, the base being the project root when none
\* is given. resolve("a/b.txt", base="/root") is /root/a/b.txt and
\* resolve("/abs/x", base="/root") is the absolute input itself.
C21_AbsoluteIgnoresBaseRelativeJoinsIt ==
    Returned("ok") =>
        LET p == PathOf(pathArgs.path_input)
            base == IF BaseIs(NoneArg) THEN ProjectRoot
                    ELSE PathOf(pathArgs.base_dir)
        IN  /\ resolved.value.absolute
            /\ p.absolute =>
                /\ resolved.value = Resolve(p)
                /\ \A b \in BaseDirs :
                       resolve_path(pathArgs.path_input, b) = resolved
            /\ ~p.absolute =>
                resolved.value = Resolve(PurePath(base.absolute, base.parts \o p.parts))
            /\ InputIs(FALSE, <<"a", "b.txt">>) /\ BaseIs(Str(TRUE, <<"root">>)) =>
                resolved.value = PurePath(TRUE, <<"root", "a", "b.txt">>)
            /\ InputIs(TRUE, <<"a", "b.txt">>) =>
                resolved.value = PurePath(TRUE, <<"a", "b.txt">>)

\* A relative input resolved against the project root, no base given.
C21_Witness ==
    /\ Returned("ok")
    /\ InputIs(FALSE, <<"a", "b.txt">>)
    /\ BaseIs(NoneArg)
    /\ resolved.value = PurePath(TRUE, <<"srv", "app", "a", "b.txt">>)

\* C22: resolve_path called with the empty string fails with a resolution
\* error instead of returning a path.
C22_EmptyStringFails ==
    resolved.returned /\ InputIs(FALSE, <<>>) => resolved.result # "ok"

\* ------------------------------------------------------------------------
\* C23: in every successful run of move_uuid_folder and of
\* move_uuid_folder_with_hierarchy the debug record is logged before any
\* change of the filesystem, the collision warning (when the destination was
\* taken) before the move, and the info success record after the move, as
\* the last thing before the return; a failing run never logs the success
\* record.
\* ------------------------------------------------------------------------
\* The positions of event in the order of logger and filesystem calls of the
\* last run.
Positions(event) == { i \in DOMAIN lastMove.trace : lastMove.trace[i] = event }

Precedes(first, second) ==
    \A i \in Positions(first), j \in Positions(second) : i < j

C23_LogOrder ==
    /\ lastMove.n > 0 /\ lastMove.result = "ok" =>
        /\ Positions("debug:attempt") = {1}
        /\ Precedes("debug:attempt", "mkdir")
        /\ Precedes("debug:attempt", "move")
        /\ Cardinality(Positions("move")) = 1
        /\ PathName(lastMove.destination)[2] # <<>> =>
               Positions("warning:exists") # {}
        /\ Precedes("warning:exists", "move")
        /\ Positions("info:moved") = {Len(lastMove.trace)}
        /\ Precedes("move", "info:moved")
    /\ lastMove.n > 0 /\ lastMove.result # "ok" =>
        Positions("info:moved") = {}

\* A successful run that created the processed root, and one that met a
\* collision; a run whose move failed.
C23_Witness ==
    /\ MoveEnded("move_uuid_folder", "ok")
    /\ lastMove.trace = <<"debug:attempt", "info:creating", "mkdir",
                          "info:moving", "move", "info:moved">>

C23_WitnessCollision ==
    /\ MoveEnded("move_uuid_folder_with_hierarchy", "ok")
    /\ Positions("warning:exists") = {2}
    /\ Positions("move") = {5}

C23_WitnessFailure ==
    /\ MoveEnded("move_uuid_folder", "OSError")
    /\ Positions("move") # {}
    /\ Positions("error:failed") = {Len(lastMove.trace)}

\* ------------------------------------------------------------------------
\* C25: a first-time get_logger call that fails part-way (an override that
\* is not a level name) leaves the name with no sinks attached, so a later
\* call with valid arguments provisions every enabled sink.
\* ------------------------------------------------------------------------
C25_FailedProvisioningLeavesNoSinks ==
    (LastIs("get_logger") /\ lastCall.configured /\ lastCall.result # "ok")
        => Handlers(lastCall.name) = <<>>

\* ------------------------------------------------------------------------
\* Properties of get_logger under two threads
\* ------------------------------------------------------------------------
AllThreadsDone == \A t \in ThreadIds : ThreadAt(t, "done")

\* The threads whose check found the logger of n without handlers.
FoundUnconfigured(n) ==
    { t \in ThreadIds : threads[t].logger_name = n /\ threads[t].found = 0 }

\* C24 as stated: with two threads making a first-time get_logger call for
\* the same name, interleaved anywhere between the "logger has no handlers"
\* check and the handler additions, the logger ends with at most one console
\* sink and at most one rotating file sink.
C24_OneSinkPerKindInEveryInterleaving ==
    AllThreadsDone =>
        \A n \in Names :
            /\ Cardinality(SinksOfKind(n, "console")) <= 1
            /\ Cardinality(SinksOfKind(n, "file")) <= 1

\* C24, amended: only a thread whose check found the logger without handlers
\* adds sinks, at most one console sink and one rotating file sink each; so
\* the logger has at most one sink of a kind when only one thread's check
\* came before the first handler addition, and at most two when both did.
C24_SinksOnlyFromThreadsThatFoundNone ==
    \A n \in Names :
        /\ Cardinality(SinksOfKind(n, "console")) <= Cardinality(FoundUnconfigured(n))
        /\ Cardinality(SinksOfKind(n, "file")) <= Cardinality(FoundUnconfigured(n))

\* Both threads passed the check before either added a handler: two console
\* sinks and two rotating file sinks.
C24_Witness ==
    /\ AllThreadsDone
    /\ \E n \in Names :
        /\ FoundUnconfigured(n) = ThreadIds
        /\ Cardinality(SinksOfKind(n, "console")) = 2
        /\ Cardinality(SinksOfKind(n, "file")) = 2

\* The second thread's check came after a handler was added: it adds none.
C24_WitnessSequential ==
    /\ AllThreadsDone
    /\ \E n \in Names :
        /\ Cardinality(FoundUnconfigured(n)) = 1
        /\ Cardinality(SinksOfKind(n, "console")) = 1
        /\ Cardinality(SinksOfKind(n, "file")) = 1
        /\ \A t \in ThreadIds : threads[t].result = "ok"

\* ------------------------------------------------------------------------
\* C26: every path move_uuid_folder_with_hierarchy returns is a strict
\* descendant of the processed root (it lies inside it and is not the root
\* itself), also when the source folder is the download root, whose
\* relative path is ".".
\* ------------------------------------------------------------------------
C26_ReturnedPathInsideProcessedRoot ==
    MoveEnded("move_uuid_folder_with_hierarchy", "ok") =>
        /\ IsPrefix(lastMove.processed_root, lastMove.ret)
        /\ lastMove.ret # lastMove.processed_root

\* ------------------------------------------------------------------------
\* C27: two processes concurrently relocate two different folders of the
\* same name into the same processed root. In every interleaving of their
\* destination-exists checks and their moves, the calls that return
\* successfully return different paths, each folder ends rooted at exactly
\* the path its call returned, and neither folder ends inside the other or
\* overwrites the other's contents.
\* ------------------------------------------------------------------------
Succeeded(p) == ProcAt(p, "done") /\ procs[p].result = "ok"

\* The path where the folder handed to p is now.
FolderRoots(p) == { q \in DOMAIN disk : disk[q].id = procs[p].folder }

C27_ConcurrentMovesKeepFoldersApart ==
    /\ \A p \in ProcIds :
          Succeeded(p) => FolderRoots(p) = {procs[p].ret}
    /\ \A p, q \in ProcIds :
          /\ p # q /\ Succeeded(p) /\ Succeeded(q) => procs[p].ret # procs[q].ret
          /\ p # q =>
                \A a \in FolderRoots(p), b \in FolderRoots(q) : ~IsPrefix(a, b)

\* ------------------------------------------------------------------------
\* C28: sanitize_filename is idempotent: applied to its own result it
\* returns that result unchanged, also for names that were cut to the
\* length ceiling.
\* ------------------------------------------------------------------------
C28_SanitizeIsIdempotent ==
    resanitized.returned => resanitized.value = sanitized.value

\* ------------------------------------------------------------------------
\* C29: in every state of a stored item that any sequence of delete_item
\* calls (soft or hard, a hard delete whose physical removal fails after
\* its first save included) and restore_item calls leads to, deleted_at is
\* set if and only if is_deleted is true, and deletion_type is 'hard' only
\* for items that were physically removed.
\* ------------------------------------------------------------------------
C29_StoredDeletionFieldsAgree ==
    \A id \in DOMAIN rows :
        /\ (rows[id].deleted_at # <<>>) <=> rows[id].is_deleted
        /\ rows[id].deletion_type # "hard"

\* ------------------------------------------------------------------------
\* C30: a soft delete followed by restore_item returns the item to its
\* non-deleted state (is_deleted false, deleted_at empty, the row still
\* stored and listed by the views that filter is_deleted=False);
\* restore_item on an item that is not deleted changes nothing; restore_item
\* on an item whose deletion_type is 'hard' fails with an error and changes
\* nothing.
\* ------------------------------------------------------------------------
\* The state follows a restore_item call; Before is the instance handed in.
Restored == lastDiary.op = "restore_item"

Before == lastDiary.item

NothingChanged == rows = lastDiary.rows /\ item = Before

C30_RestoreUndoesSoftDelete ==
    Restored =>
        /\ Before.deletion_type = "hard" =>
              lastDiary.result = "ValueError" /\ NothingChanged
        /\ Before.deletion_type # "hard" /\ ~Before.is_deleted =>
              lastDiary.result = "ok" /\ NothingChanged
        /\ (Before.deletion_type # "hard" /\ Before.is_deleted
            /\ lastDiary.result = "ok") =>
              /\ Before.pk # <<>>
              /\ Visible(rows, Before.pk[1])
              /\ ~rows[Before.pk[1]].is_deleted
              /\ rows[Before.pk[1]].deleted_at = <<>>
              /\ ~item.is_deleted /\ item.deleted_at = <<>>
              /\ \A id \in DOMAIN lastDiary.rows \ {Before.pk[1]} :
                     id \in DOMAIN rows /\ rows[id] = lastDiary.rows[id]

\* delete_item in soft mode deleted the visible item A, and restore_item
\* brought it back.
C30_Witness ==
    /\ Restored /\ lastDiary.result = "ok"
    /\ lastDiary.prev = <<"delete_item", "soft", "ok">>
    /\ Before.pk = <<"A">>
    /\ lastDiary.rows["A"].is_deleted /\ lastDiary.rows["A"].deleted_at # <<>>
    /\ Visible(rows, "A") /\ rows["A"].deleted_at = <<>>

\* restore_item refused an item marked 'hard'; restore_item left an item
\* that is not deleted alone.
C30_WitnessHard ==
    /\ Restored /\ lastDiary.result = "ValueError"
    /\ Before.deletion_type = "hard" /\ Before.pk # <<>>
    /\ Before.pk[1] \in DOMAIN rows

C30_WitnessNotDeleted ==
    /\ Restored /\ lastDiary.result = "ok"
    /\ ~Before.is_deleted /\ Before.pk = <<"A">> /\ Visible(rows, "A")

====
